---- MODULE Spec2Model ----
(***************************************************************************)
(* A model of the FileLu backend (backend/filelu): the translation of      *)
(* slash separated virtual paths to remote folder identifiers, the partial *)
(* content fingerprint used for duplicate detection, and the upload / move *)
(* pipeline.                                                               *)
(*                                                                         *)
(* Strings are sequences of one-character strings, so that the parsing of  *)
(* the "(id) name" template is computed as the code computes it.  The      *)
(* remote service is a variable; every remote call of an operation is      *)
(* answered by the remote according to the state it is in when it takes    *)
(* the call, and to a fault `script` that says which call of the operation *)
(* (if any) fails and how.                                                 *)
(***************************************************************************)
EXTENDS Integers, Sequences, FiniteSets, TLC

VARIABLES
    f,       \* the Fs value: [root, folderID], as NewFs builds it
    remote,  \* the remote service: [folders, files], in listing order
    local,   \* the local files the operations wrote under a given path
    ops      \* for each caller, its operation in progress or just finished

vars == <<f, remote, local, ops>>

\* the operation of the first caller
op == ops[1]

----------------------------------------------------------------------------
(* Bounds of the model.                                                    *)

\* the number of segments of the paths given to the operations
MaxSegs == 2

\* the longest chain of remote calls of one upload or move operation that a
\* fault is scripted into
MaxCalls == 7

\* the most chunks the body of a download arrives in
MaxChunks == 2

----------------------------------------------------------------------------
(* Strings.                                                                *)

Digit == {"0", "1", "2", "3", "4", "5", "6", "7", "8", "9"}

Lower == {"a", "b", "c", "d", "e", "f", "g", "h", "i", "j", "k", "l", "m",
          "n", "o", "p", "q", "r", "s", "t", "u", "v", "w", "x", "y", "z"}

DigitVal(c) ==
    CASE c = "0" -> 0 [] c = "1" -> 1 [] c = "2" -> 2 [] c = "3" -> 3
      [] c = "4" -> 4 [] c = "5" -> 5 [] c = "6" -> 6 [] c = "7" -> 7
      [] c = "8" -> 8 [] c = "9" -> 9

DigitChar(d) ==
    CASE d = 0 -> "0" [] d = 1 -> "1" [] d = 2 -> "2" [] d = 3 -> "3"
      [] d = 4 -> "4" [] d = 5 -> "5" [] d = 6 -> "6" [] d = 7 -> "7"
      [] d = 8 -> "8" [] d = 9 -> "9"

\* strings.HasPrefix
HasPrefix(s, p) == Len(s) >= Len(p) /\ SubSeq(s, 1, Len(p)) = p

\* strings.HasSuffix
HasSuffix(s, p) ==
    Len(s) >= Len(p) /\ SubSeq(s, Len(s) - Len(p) + 1, Len(s)) = p

\* strings.Index for a one-character needle: the 0-based index of its first
\* occurrence, -1 when there is none
Index(s, c) ==
    IF \E i \in 1..Len(s) : s[i] = c
    THEN (CHOOSE i \in 1..Len(s) :
              s[i] = c /\ \A j \in 1..(i - 1) : s[j] # c) - 1
    ELSE -1

\* Go's s[from:] with a 0-based index
SliceFrom(s, from) == SubSeq(s, from + 1, Len(s))

\* Go's s[from:to] with 0-based indices, to exclusive
Slice(s, from, to) == SubSeq(s, from + 1, to)

RECURSIVE TrimLeft(_, _)
TrimLeft(s, cs) ==
    IF s # <<>> /\ Head(s) \in cs THEN TrimLeft(Tail(s), cs) ELSE s

RECURSIVE TrimRight(_, _)
TrimRight(s, cs) ==
    IF s # <<>> /\ s[Len(s)] \in cs
    THEN TrimRight(SubSeq(s, 1, Len(s) - 1), cs)
    ELSE s

\* strings.Trim(s, cutset)
Trim(s, cs) == TrimRight(TrimLeft(s, cs), cs)

\* the white space of unicode.IsSpace.  A character is a one-character
\* string; a white space character that has no literal of its own is written
\* as its Go escape
WhiteSpace ==
    {" ", "\t", "\n", "\r", "\f", "\\v", "\\u0085", "\\u00a0", "\\u1680",
     "\\u2000", "\\u2001", "\\u2002", "\\u2003", "\\u2004", "\\u2005",
     "\\u2006", "\\u2007", "\\u2008", "\\u2009", "\\u200a", "\\u2028",
     "\\u2029", "\\u202f", "\\u205f", "\\u3000"}

\* strings.TrimSpace: the leading and the trailing white space is cut
TrimSpace(s) == Trim(s, WhiteSpace)

\* strings.Split(s, sep) for a one-character separator: every piece, the
\* empty ones included
RECURSIVE SplitFrom(_, _, _)
SplitFrom(s, sep, cur) ==
    IF s = <<>> THEN <<cur>>
    ELSE IF Head(s) = sep
         THEN <<cur>> \o SplitFrom(Tail(s), sep, <<>>)
         ELSE SplitFrom(Tail(s), sep, Append(cur, Head(s)))

Split(s, sep) == SplitFrom(s, sep, <<>>)

RECURSIVE DigitsValue(_, _)
DigitsValue(s, acc) ==
    IF s = <<>> THEN acc
    ELSE DigitsValue(Tail(s), acc * 10 + DigitVal(Head(s)))

\* strconv.Atoi: an optional sign and at least one decimal digit
\* (the values of the model stay far below the range of int)
Atoi(s) ==
    LET signed == s # <<>> /\ Head(s) \in {"+", "-"}
        body   == IF signed THEN Tail(s) ELSE s
    IN  IF body # <<>> /\ \A i \in 1..Len(body) : body[i] \in Digit
        THEN [ok  |-> TRUE,
              val |-> IF signed /\ Head(s) = "-"
                      THEN 0 - DigitsValue(body, 0)
                      ELSE DigitsValue(body, 0)]
        ELSE [ok |-> FALSE, val |-> 0]

RECURSIVE NatDigits(_)
NatDigits(n) ==
    IF n < 10 THEN <<DigitChar(n)>>
    ELSE Append(NatDigits(n \div 10), DigitChar(n % 10))

\* the %d verb of fmt.Sprintf
Itoa(n) == IF n < 0 THEN <<"-">> \o NatDigits(0 - n) ELSE NatDigits(n)

RECURSIVE JoinWith(_, _)
JoinWith(parts, sep) ==
    IF parts = <<>> THEN <<>>
    ELSE IF Len(parts) = 1 THEN parts[1]
         ELSE parts[1] \o <<sep>> \o JoinWith(Tail(parts), sep)

\* path.Clean on the pieces of a path: empty and "." pieces dropped, ".."
\* removing the piece before it
RECURSIVE CleanPieces(_, _, _)
CleanPieces(pieces, rooted, stack) ==
    IF pieces = <<>> THEN stack
    ELSE LET p == Head(pieces) IN
         IF p = <<>> \/ p = <<".">>
         THEN CleanPieces(Tail(pieces), rooted, stack)
         ELSE IF p = <<".", ".">>
              THEN IF stack # <<>> /\ stack[Len(stack)] # <<".", ".">>
                   THEN CleanPieces(Tail(pieces), rooted,
                                    SubSeq(stack, 1, Len(stack) - 1))
                   ELSE IF rooted
                        THEN CleanPieces(Tail(pieces), rooted, stack)
                        ELSE CleanPieces(Tail(pieces), rooted, Append(stack, p))
              ELSE CleanPieces(Tail(pieces), rooted, Append(stack, p))

\* path.Clean
Clean(p) ==
    LET rooted == p # <<>> /\ Head(p) = "/"
        body   == JoinWith(CleanPieces(Split(p, "/"), rooted, <<>>), "/")
        out    == IF rooted THEN <<"/">> \o body ELSE body
    IN  IF out = <<>> THEN <<".">> ELSE out

\* path.Join of two elements: the empty ones are ignored, the rest joined
\* by "/" and cleaned; "" when both are empty
Join(a, b) ==
    IF a = <<>> /\ b = <<>> THEN <<>>
    ELSE IF a = <<>> THEN Clean(b)
         ELSE IF b = <<>> THEN Clean(a)
              ELSE Clean(a \o <<"/">> \o b)

\* strings.LastIndex for a one-character needle, 0-based, -1 when absent
LastIndex(s, c) ==
    IF \E i \in 1..Len(s) : s[i] = c
    THEN (CHOOSE i \in 1..Len(s) :
              s[i] = c /\ \A j \in (i + 1)..Len(s) : s[j] # c) - 1
    ELSE -1

\* path.Base: the last element of the path, trailing slashes removed
Base(p) ==
    LET q == TrimRight(p, {"/"}) IN
    IF p = <<>> THEN <<".">>
    ELSE IF q = <<>> THEN <<"/">>
    ELSE SliceFrom(q, LastIndex(q, "/") + 1)

\* path.Dir: all but the last element of the path, cleaned
Dir(p) == Clean(Slice(p, 0, LastIndex(p, "/") + 1))

----------------------------------------------------------------------------
(* Errors.  An error value is the chain of its layers, outermost first;    *)
(* the nil error is the empty chain.                                       *)

ErrNil == <<>>

\* errors.New, and fmt.Errorf without %w
ErrNew(msg) == <<[t |-> "errorString", m |-> msg]>>

\* fmt.Errorf("msg: %w", err)
Errorf(msg, err) == <<[t |-> "wrapError", m |-> msg]>> \o err

\* the error of http.Client.Do
ErrTransport == <<[t |-> "url.Error", m |-> "transport"]>>

\* fs.ErrorDirNotFound
ErrorDirNotFound == <<[t |-> "fs.ErrorDirNotFound", m |-> "directory not found"]>>

\* fs.ErrorObjectNotFound
ErrorObjectNotFound ==
    <<[t |-> "fs.ErrorObjectNotFound", m |-> "object not found"]>>

\* fserrors.NoRetryError
NoRetryError(err) == <<[t |-> "fserrors.NoRetry", m |-> ""]>> \o err

\* errors.Is never recognising the target: the not-found branch is lost
ErrorsIsNever(err, target) == FALSE

\* errors.Is(err, target) for a sentinel target
ErrorsIs(err, target) == \E i \in 1..Len(err) : <<err[i]>> = target

----------------------------------------------------------------------------
(* The remote service.                                                     *)

\* a fault script: the at-th remote call of the operation fails (0: none),
\* either in transport or with a non-OK status in the decoded body
NoFault == [at |-> 0, how |-> "status"]

\* An operation sends its requests one at a time and waits for the answer of
\* each; between two of them the remote serves the requests of the other
\* callers.  The script of a run carries, next to the fault, the states
\* `seen` in which the remote took the requests served so far: the k-th
\* request is answered from seen[k].  A script without them is that of a
\* run no other caller comes between: each request finds the remote as the
\* request before it left it.
Timed(script, seen) ==
    [at |-> script.at, how |-> script.how, seen |-> seen]

IsTimed(script) == "seen" \in DOMAIN script

\* the remote as the k-th request of the run finds it
At(cur, script, k) ==
    IF IsTimed(script) /\ k <= Len(script.seen) THEN script.seen[k] ELSE cur

\* how the k-th request of the run ends.  A request the remote has not
\* taken yet has no answer: the run goes no further than this request
Outcome(script, k) ==
    IF IsTimed(script) /\ k > Len(script.seen) THEN "transport"
    ELSE IF script.at = k THEN script.how ELSE "ok"

FolderIds(rem) == {rem.folders[i].id : i \in 1..Len(rem.folders)}

FoldersIn(rem, id) == SelectSeq(rem.folders, LAMBDA d : d.parent = id)

FilesIn(rem, id) == SelectSeq(rem.files, LAMBDA x : x.fld = id)

\* one remote call as the operation's trace records it: the request, how it
\* was answered and, for a listing, the folders the answer held
Call(api, fld, code, out, res) ==
    [api |-> api, fld |-> fld, code |-> code, out |-> out, res |-> res]

\* GET folder/list?fld_id=id : the k-th call of the operation.  A folder the
\* remote does not hold is answered with a non-OK status; a non-OK body
\* carries no result.
FolderList(cur, script, k, id) ==
    LET rem == At(cur, script, k)
        o   == Outcome(script, k)
        out == IF o = "ok" /\ id # 0 /\ id \notin FolderIds(rem)
               THEN "status" ELSE o
    IN  [out     |-> out,
         call    |-> Call("folder/list", id, <<>>, out,
                         IF out = "ok" THEN FoldersIn(rem, id) ELSE <<>>),
         folders |-> IF out = "ok" THEN FoldersIn(rem, id) ELSE <<>>,
         files   |-> IF out = "ok" THEN FilesIn(rem, id) ELSE <<>>]

\* GET folder/delete?fld_id=id : the remote deletes a folder it holds and
\* that is empty, and answers any other request with a non-OK status
FolderDelete(cur, script, k, id) ==
    LET rem == At(cur, script, k)
        o   == Outcome(script, k)
        out == IF o = "ok" /\ (\/ id \notin FolderIds(rem)
                               \/ FoldersIn(rem, id) # <<>>
                               \/ FilesIn(rem, id) # <<>>)
               THEN "status" ELSE o
    IN  [out    |-> out,
         call   |-> Call("folder/delete", id, <<>>, out, <<>>),
         remote |-> IF out = "ok"
                    THEN [rem EXCEPT !.folders =
                              SelectSeq(rem.folders, LAMBDA d : d.id # id)]
                    ELSE rem]

\* the identifier the remote gives the next folder it creates
NewFolderID(rem) ==
    1 + CHOOSE m \in FolderIds(rem) : \A i \in FolderIds(rem) : i <= m

\* GET folder/create?parent_id=id&name=name : the remote creates the folder
\* in a parent it holds and answers any other request with a non-OK status
FolderCreate(cur, script, k, id, name) ==
    LET rem == At(cur, script, k)
        o   == Outcome(script, k)
        out == IF o = "ok" /\ id # 0 /\ id \notin FolderIds(rem)
               THEN "status" ELSE o
    IN  [out    |-> out,
         call   |-> Call("folder/create", id, name, out, <<>>),
         remote |-> IF out = "ok"
                    THEN [rem EXCEPT !.folders =
                              Append(@, [id |-> NewFolderID(rem),
                                         name |-> name, parent |-> id])]
                    ELSE rem]

----------------------------------------------------------------------------
(* Local files and the content fingerprint.                                *)

\* const partSize of ComputeMD5
partSize == 1024

\* the size of an MD5 sum in bytes (md5.Size)
md5Size == 16

\* n bytes of value b
Bytes(n, b) == [i \in 1..n |-> b]

\* the contents of the local files and of the remote files, by key
Content(key) ==
    CASE key = "empty"  -> <<>>
      [] key = "b1"     -> Bytes(1, 7)
      [] key = "b10"    -> Bytes(10, 7)
      [] key = "b10x"   -> Bytes(9, 7) \o <<8>>
      [] key = "b1023"  -> Bytes(partSize - 1, 1)
      [] key = "b1024"  -> Bytes(partSize, 1)
      [] key = "b1024x" -> Bytes(partSize - 1, 1) \o <<2>>
      [] key = "b1025"  -> Bytes(partSize, 1) \o <<3>>
      [] key = "b2048"  -> Bytes(partSize, 1) \o Bytes(partSize, 3)
      [] key = "b2049"  -> Bytes(partSize, 1) \o <<2>> \o Bytes(partSize, 3)
      [] key = "b2049x" -> Bytes(partSize, 1) \o <<9>> \o Bytes(partSize, 3)
      [] key = "b3000"  -> Bytes(partSize, 1) \o Bytes(952, 5) \o Bytes(partSize, 3)

ContentKeys ==
    {"empty", "b1", "b10", "b10x", "b1023", "b1024", "b1024x", "b1025",
     "b2048", "b2049", "b2049x", "b3000"}

\* the length of the first run of equal bytes of a non-empty sequence
RunLen(s) ==
    IF \E i \in 1..Len(s) : s[i] # s[1]
    THEN (CHOOSE i \in 1..Len(s) :
              s[i] # s[1] /\ \A j \in 1..(i - 1) : s[j] = s[1]) - 1
    ELSE Len(s)

\* the runs of a byte sequence: the sequence itself, written compactly
RECURSIVE Runs(_)
Runs(s) ==
    IF s = <<>> THEN <<>>
    ELSE <<[b |-> s[1], n |-> RunLen(s)]>>
         \o Runs(SubSeq(s, RunLen(s) + 1, Len(s)))

\* md5.Sum, idealised as free of collisions: the sum stands for the bytes
\* it was computed from and for nothing else
md5Sum(buffer) == [md5 |-> Runs(buffer)]

\* base64.RawStdEncoding.EncodedLen
EncodedLen(n) == (n * 8 + 5) \div 6

\* base64.RawStdEncoding.EncodeToString of an MD5 sum: a text of
\* EncodedLen(md5Size) characters, kept as one symbol that carries its length
EncodeToString(sum) == <<[b64 |-> sum, len |-> EncodedLen(md5Size)]>>

\* the number of characters of the text EncodeToString returned ("" has
\* none)
DigestLen(hash) == IF hash = <<>> THEN 0 ELSE hash[1].len

\* io.ReadFull(file, buf) with len(buf) = n on a file positioned at offset
\* off: the bytes read into the zeroed buffer, and nil, io.EOF when no byte
\* was read, or io.ErrUnexpectedEOF when some but fewer than n were
ReadFull(data, off, n) ==
    LET avail == IF Len(data) - off > 0 THEN Len(data) - off ELSE 0
        got   == IF avail < n THEN avail ELSE n
    IN  [buf |-> SubSeq(data, off + 1, off + got) \o Bytes(n - got, 0),
         err |-> IF got = n THEN "nil"
                 ELSE IF got = 0 THEN "io.EOF" ELSE "io.ErrUnexpectedEOF"]

\* a fingerprint taken over every byte of the file
ComputeMD5Whole(files, filePath) ==
    IF filePath \notin DOMAIN files
    THEN [hash |-> <<>>,
          err  |-> Errorf("failed to open file", ErrNew("os.PathError"))]
    ELSE [hash |-> EncodeToString(md5Sum(Content(files[filePath]))),
          err  |-> ErrNil]

\* ComputeMD5 of the file at filePath on the local disk `files`
\* (a function from the paths of the existing files to content keys)
ComputeMD5(files, filePath) ==
    LET data  == Content(files[filePath])
        first == ReadFull(data, 0, partSize)
        last  == IF Len(data) > partSize
                 THEN ReadFull(data, Len(data) - partSize, partSize)
                 ELSE [buf |-> first.buf, err |-> "nil"]
    IN  IF filePath \notin DOMAIN files
        THEN [hash |-> <<>>,
              err  |-> Errorf("failed to open file", ErrNew("os.PathError"))]
        ELSE IF first.err \notin {"nil", "io.EOF"}
        THEN [hash |-> <<>>,
              err  |-> Errorf("failed to read first part", ErrNew(first.err))]
        ELSE IF last.err \notin {"nil", "io.EOF"}
        THEN [hash |-> <<>>,
              err  |-> Errorf("failed to read last part", ErrNew(last.err))]
        ELSE [hash |-> EncodeToString(md5Sum(first.buf \o last.buf)),
              err  |-> ErrNil]

----------------------------------------------------------------------------
(* Construction of the Fs.                                                 *)

\* isNumeric
isNumeric(s) == Atoi(s).ok

\* isFileCode
isFileCode(s) ==
    Len(s) = 12 /\ \A i \in 1..Len(s) : s[i] \in Lower \cup Digit

\* parseFolderID
parseFolderID(root) ==
    IF isNumeric(root) THEN [folderID |-> root, parsedRoot |-> <<>>]
    ELSE LET parts == Split(root, ":") IN
         IF Len(parts) = 2
         THEN [folderID   |-> TrimSpace(parts[2]),
               parsedRoot |-> TrimSpace(parts[1])]
         ELSE [folderID |-> <<>>, parsedRoot |-> root]

\* NewFs (with a key configured)
NewFs(root) ==
    LET p == parseFolderID(Trim(root, {"/"})) IN
    [root     |-> p.parsedRoot,
     folderID |-> IF p.folderID = <<>> THEN <<"0">> ELSE p.folderID]

----------------------------------------------------------------------------
(* Path resolution.                                                        *)

\* strings.ToLower on the letters of the model
ToLower(s) ==
    [i \in 1..Len(s) |-> IF s[i] = "D" THEN "d"
                         ELSE IF s[i] = "P" THEN "p" ELSE s[i]]

\* FirstMatch comparing names without regard to case
FirstMatchFold(folders, name) ==
    IF \E i \in 1..Len(folders) : ToLower(folders[i].name) = ToLower(name)
    THEN CHOOSE i \in 1..Len(folders) :
             ToLower(folders[i].name) = ToLower(name)
             /\ \A j \in 1..(i - 1) :
                    ToLower(folders[j].name) # ToLower(name)
    ELSE 0

\* the index of the last folder of a listing named `name`, 0 when none is
LastMatch(folders, name) ==
    IF \E i \in 1..Len(folders) : folders[i].name = name
    THEN CHOOSE i \in 1..Len(folders) :
             folders[i].name = name
             /\ \A j \in (i + 1)..Len(folders) : folders[j].name # name
    ELSE 0

\* the index of the first folder of a listing named `name`, 0 when none is
FirstMatch(folders, name) ==
    IF \E i \in 1..Len(folders) : folders[i].name = name
    THEN CHOOSE i \in 1..Len(folders) :
             folders[i].name = name
             /\ \A j \in 1..(i - 1) : folders[j].name # name
    ELSE 0

\* a decoding that keeps the blank between the identifier and the name
decodeSegmentKeep(part) ==
    LET end == Index(part, ")")
        id  == IF HasPrefix(part, <<"(">>) /\ end # -1
               THEN Atoi(Slice(part, 1, end))
               ELSE [ok |-> FALSE, val |-> 0]
    IN  IF id.ok
        THEN [folderID |-> id.val, part |-> SliceFrom(part, end + 1)]
        ELSE [folderID |-> 0, part |-> part]

\* the decoding of one segment in resolveFolderPath: the identifier of the
\* "(id) name" template, 0 when the segment carries none, and the name
decodeSegment(part) ==
    LET end == Index(part, ")")
        id  == IF HasPrefix(part, <<"(">>) /\ end # -1
               THEN Atoi(Slice(part, 1, end))
               ELSE [ok |-> FALSE, val |-> 0]
    IN  IF id.ok
        THEN [folderID |-> id.val, part |-> TrimSpace(SliceFrom(part, end + 1))]
        ELSE [folderID |-> 0, part |-> part]

\* the decoding resolveFolderPath applies to a path: the path split at "/",
\* the empty pieces skipped, every other piece decoded
RECURSIVE decodeParts(_)
decodeParts(parts) ==
    IF parts = <<>> THEN <<>>
    ELSE IF Head(parts) = <<>> THEN decodeParts(Tail(parts))
    ELSE <<decodeSegment(Head(parts))>> \o decodeParts(Tail(parts))

decodePath(path) == IF path = <<>> THEN <<>> ELSE decodeParts(Split(path, "/"))

\* the loop of resolveFolderPath over the segments from the i-th on
RECURSIVE resolveSegments(_, _, _, _, _, _)
resolveSegments(rem, script, parts, i, currentID, calls) ==
    IF i > Len(parts) THEN [val |-> currentID, err |-> ErrNil, calls |-> calls]
    ELSE IF parts[i] = <<>>
    THEN resolveSegments(rem, script, parts, i + 1, currentID, calls)
    ELSE LET d == decodeSegment(parts[i]) IN
         IF d.folderID # 0
         THEN resolveSegments(rem, script, parts, i + 1, d.folderID, calls)
         ELSE LET r  == FolderList(rem, script, Len(calls) + 1, currentID)
                  cs == Append(calls, r.call)
                  m  == FirstMatch(r.folders, d.part)
              IN  IF r.out = "transport"
                  THEN [val |-> 0, err |-> ErrTransport, calls |-> cs]
                  ELSE IF r.out = "status"
                  THEN [val |-> 0, err |-> ErrNew("error: msg"), calls |-> cs]
                  ELSE IF m = 0
                  THEN [val |-> 0, err |-> ErrorDirNotFound, calls |-> cs]
                  ELSE resolveSegments(rem, script, parts, i + 1,
                                       r.folders[m].id, cs)

\* resolveFolderPath; `calls` are the remote calls the operation made before
resolveFolderPath(rem, script, path, calls) ==
    IF path = <<>> THEN [val |-> 0, err |-> ErrNil, calls |-> calls]
    ELSE resolveSegments(rem, script, Split(path, "/"), 1, 0, calls)

\* the loop of getFolderID over the segments from the i-th on
RECURSIVE folderIDSegments(_, _, _, _, _, _)
folderIDSegments(rem, script, parts, i, currentID, calls) ==
    IF i > Len(parts) THEN [val |-> currentID, err |-> ErrNil, calls |-> calls]
    ELSE IF parts[i] = <<>>
    THEN folderIDSegments(rem, script, parts, i + 1, currentID, calls)
    ELSE LET r  == FolderList(rem, script, Len(calls) + 1, currentID)
             cs == Append(calls, r.call)
             m  == FirstMatch(r.folders, parts[i])
         IN  IF r.out = "transport"
             THEN [val |-> 0,
                   err |-> Errorf("failed to list directory", ErrTransport),
                   calls |-> cs]
             ELSE IF r.out = "status"
             THEN [val |-> 0, err |-> ErrNew("error: msg"), calls |-> cs]
             ELSE IF m = 0
             THEN [val |-> 0, err |-> ErrorDirNotFound, calls |-> cs]
             ELSE folderIDSegments(rem, script, parts, i + 1,
                                   r.folders[m].id, cs)

\* getFolderID
getFolderID(fs, rem, script, dir, calls) ==
    IF dir = <<>>
    THEN IF Atoi(fs.root).ok
         THEN [val |-> Atoi(fs.root).val, err |-> ErrNil, calls |-> calls]
         ELSE [val |-> 0,
               err |-> Errorf("invalid root directory ID", ErrNew("strconv.Atoi")),
               calls |-> calls]
    ELSE IF Atoi(dir).ok
    THEN [val |-> Atoi(dir).val, err |-> ErrNil, calls |-> calls]
    ELSE folderIDSegments(rem, script, Split(dir, "/"), 1, 0, calls)

\* an emptiness check that looks at the files alone
notEmptyFilesOnly(files, folders) == Len(files) > 0

\* the emptiness check of Rmdir on the listing of the directory
notEmpty(files, folders) == Len(files) > 0 \/ Len(folders) > 0

\* Rmdir: the result, the calls and the remote afterwards
Rmdir(fs, rem, script, dir) ==
    LET fullPath == Trim(IF fs.root # <<>> THEN Join(fs.root, dir) ELSE dir,
                         {"/"})
        g    == getFolderID(fs, rem, script, fullPath, <<>>)
        l    == FolderList(rem, script, Len(g.calls) + 1, g.val)
        lcs  == Append(g.calls, l.call)
        x    == FolderDelete(rem, script, Len(lcs) + 1, g.val)
        xcs  == Append(lcs, x.call)
    IN  IF fullPath = <<>>
        THEN [err |-> NoRetryError(ErrNew("directory name cannot be empty")),
              calls |-> <<>>, remote |-> rem]
        ELSE IF g.err # ErrNil
        THEN [err |-> IF ErrorsIs(g.err, ErrorDirNotFound)
                      THEN ErrorDirNotFound
                      ELSE NoRetryError(Errorf("failed to get folder ID", g.err)),
              calls |-> g.calls, remote |-> rem]
        ELSE IF l.out = "transport"
        THEN [err |-> NoRetryError(Errorf("failed to check directory contents",
                                          ErrTransport)),
              calls |-> lcs, remote |-> rem]
        ELSE IF notEmpty(l.files, l.folders)
        THEN [err |-> NoRetryError(ErrNew("directory not empty")),
              calls |-> lcs, remote |-> rem]
        ELSE IF x.out = "transport"
        THEN [err |-> NoRetryError(Errorf("failed to delete directory",
                                          ErrTransport)),
              calls |-> xcs, remote |-> rem]
        ELSE IF x.out = "status"
        THEN [err |-> NoRetryError(ErrNew("error: msg")),
              calls |-> xcs, remote |-> rem]
        ELSE [err |-> ErrNil, calls |-> xcs, remote |-> x.remote]

----------------------------------------------------------------------------
(* The remote's file requests.                                             *)

FileCodes(rem) == {rem.files[i].code : i \in 1..Len(rem.files)}

FileOf(rem, code) ==
    rem.files[CHOOSE i \in 1..Len(rem.files) : rem.files[i].code = code]

\* the file code the remote gives the next uploaded file
sCodeNew == <<"n", "e", "w", "0", "0", "0", "c", "o", "d", "e", "0", "1">>

\* the session the remote issues in answer to the k-th call
Session(k) == [url |-> k, sessID |-> k]

\* the hash string the remote lists for a file: the fingerprint of its head
\* and tail windows (one window used for both ends of a file no longer than
\* the window) followed by the decimal id of the folder that holds it
Fingerprint(data) ==
    LET first == ReadFull(Content(data), 0, partSize).buf
        last  == IF Len(Content(data)) > partSize
                 THEN ReadFull(Content(data), Len(Content(data)) - partSize,
                               partSize).buf
                 ELSE first
    IN  EncodeToString(md5Sum(first \o last))

ListedHash(data, fld) == Fingerprint(data) \o Itoa(fld)

\* GET upload/server
UploadServer(script, k) ==
    LET out == Outcome(script, k) IN
    [out  |-> out,
     sess |-> Session(k),
     call |-> Call("upload/server", 0, <<>>, out,
                   IF out = "ok" THEN <<Session(k)>> ELSE <<>>)]

\* POST of the multipart body to the upload URL: the remote stores the file
\* in the root folder under a new file code
Upload(cur, script, k, uploadURL, sessionID, fileName, data) ==
    LET rem == At(cur, script, k)
        o   == Outcome(script, k)
        out == IF o = "ok" /\ sCodeNew \in FileCodes(rem) THEN "status" ELSE o
    IN  [out      |-> out,
         fileCode |-> IF out = "ok" THEN sCodeNew ELSE <<>>,
         call     |-> Call("upload", 0, IF out = "ok" THEN sCodeNew ELSE <<>>,
                           out,
                           <<[url |-> uploadURL, sessID |-> sessionID,
                              name |-> fileName, data |-> data]>>),
         remote   |-> IF out = "ok"
                      THEN [rem EXCEPT !.files =
                                Append(@, [code |-> sCodeNew,
                                           name |-> fileName, fld |-> 0,
                                           data |-> data,
                                           hash |-> ListedHash(data, 0)])]
                      ELSE rem]

\* GET file/set_folder?file_code=code&fld_id=id
SetFolder(cur, script, k, code, id) ==
    LET rem == At(cur, script, k)
        o   == Outcome(script, k)
        out == IF o = "ok" /\ (code \notin FileCodes(rem)
                               \/ id \notin FolderIds(rem))
               THEN "status" ELSE o
    IN  [out    |-> out,
         call   |-> Call("file/set_folder", id, code, out, <<>>),
         remote |-> IF out = "ok"
                    THEN [rem EXCEPT !.files =
                              [i \in 1..Len(rem.files) |->
                                  IF rem.files[i].code = code
                                  THEN [rem.files[i] EXCEPT
                                          !.fld = id,
                                          !.hash = ListedHash(
                                                     rem.files[i].data, id)]
                                  ELSE rem.files[i]]]
                    ELSE rem]

\* the path of the download URL the remote hands out for a file: it ends
\* in the name of the file
LinkPath(file) == <<"/", "d", "/">> \o file.code \o <<"/">> \o file.name

\* GET file/direct_link?file_code=code: the URL and the size of the file
DirectLink(cur, script, k, code) ==
    LET rem == At(cur, script, k)
        o   == Outcome(script, k)
        out == IF o = "ok" /\ code \notin FileCodes(rem) THEN "status" ELSE o
    IN  [out  |-> out,
         url  |-> IF out = "ok" THEN LinkPath(FileOf(rem, code)) ELSE <<>>,
         size |-> IF out = "ok" THEN Len(Content(FileOf(rem, code).data))
                  ELSE 0,
         call |-> Call("file/direct_link", 0, code, out, <<>>)]

\* GET of the direct link: the content of the file, or a status other than
\* 200 for a file the remote holds no longer
Download(cur, script, k, code) ==
    LET rem == At(cur, script, k)
        o   == Outcome(script, k)
        out == IF o = "ok" /\ code \notin FileCodes(rem) THEN "status" ELSE o
    IN  [out  |-> out,
         data |-> IF out = "ok" THEN FileOf(rem, code).data ELSE "empty",
         call |-> Call("download", 0, code, out, <<>>)]

\* GET file/remove?file_code=code&remove=1
FileRemove(cur, script, k, code) ==
    LET rem == At(cur, script, k)
        o   == Outcome(script, k)
        out == IF o = "ok" /\ code \notin FileCodes(rem) THEN "status" ELSE o
    IN  [out    |-> out,
         call   |-> Call("file/remove", 0, code, out, <<>>),
         remote |-> IF out = "ok"
                    THEN [rem EXCEPT !.files =
                              SelectSeq(@, LAMBDA x : x.code # code)]
                    ELSE rem]

----------------------------------------------------------------------------
(* The upload and move pipeline.  An operation threads its effects through *)
(* a record st: the remote calls made so far, the remote, the temporary    *)
(* files it left on the local disk and the lines it logged.                *)

\* a step of an operation: the value the call returned, computed once, and
\* what the operation does with it
Bind(v, Rest(_)) == CHOOSE r \in {Rest(w) : w \in {v}} : TRUE

St0(rem) == [calls |-> <<>>, remote |-> rem, disk |-> <<>>, log |-> <<>>]

Sent(st, call) == [st EXCEPT !.calls = Append(@, call)]

Logged(st, msg) == [st EXCEPT !.log = Append(@, msg)]

NextCall(st) == Len(st.calls) + 1

\* reading from a closed *os.File
ErrClosed ==
    <<[t |-> "*fs.PathError", m |-> "read"],
      [t |-> "errorString", m |-> "file already closed"]>>

\* DuplicateFileError{Hash: hash}
DuplicateFileError(hash) == <<[t |-> "*DuplicateFileError", m |-> hash]>>

\* IsDuplicateFileError: a type assertion on the error itself
IsDuplicateFileError(err) ==
    err # ErrNil /\ err[1].t = "*DuplicateFileError"

\* a reader over the content `data`; a closed file cannot be read
Reader(data) == [data |-> data, open |-> TRUE]

\* createTempFileFromReader: the temporary file is created, filled from the
\* reader, closed, and the closed file is returned
createTempFileFromReader(st, in) ==
    IF ~in.open
    THEN [file |-> [name |-> 0, data |-> "empty", open |-> FALSE],
          err  |-> Errorf("failed to write to temp file", ErrClosed),
          st   |-> [st EXCEPT !.disk = Append(@, "empty")]]
    ELSE [file |-> [name |-> Len(st.disk) + 1, data |-> in.data,
                    open |-> FALSE],
          err  |-> ErrNil,
          st   |-> [st EXCEPT !.disk = Append(@, in.data)]]

\* a getUploadServer that asks once more after a transport error
getUploadServerRetry(st, script) ==
    LET r  == UploadServer(script, NextCall(st))
        s1 == Sent(st, r.call)
        q  == UploadServer(script, NextCall(s1))
        x  == IF r.out = "transport" THEN q ELSE r
    IN  [url    |-> IF x.out = "ok" THEN x.sess.url ELSE 0,
         sessID |-> IF x.out = "ok" THEN x.sess.sessID ELSE 0,
         err    |-> CASE x.out = "transport" ->
                           Errorf("failed to get upload server", ErrTransport)
                      [] x.out = "status" -> ErrNew("error: msg")
                      [] OTHER -> ErrNil,
         st     |-> IF r.out = "transport" THEN Sent(s1, q.call) ELSE s1]

\* getUploadServer
getUploadServer(st, script) ==
    LET r == UploadServer(script, NextCall(st)) IN
    [url    |-> IF r.out = "ok" THEN r.sess.url ELSE 0,
     sessID |-> IF r.out = "ok" THEN r.sess.sessID ELSE 0,
     err    |-> CASE r.out = "transport" ->
                       Errorf("failed to get upload server", ErrTransport)
                  [] r.out = "status" -> ErrNew("error: msg")
                  [] OTHER -> ErrNil,
     st     |-> Sent(st, r.call)]

\* FetchRemoteFileHashes
FetchRemoteFileHashes(st, script, folderID) ==
    LET l == FolderList(st.remote, script, NextCall(st), folderID) IN
    [hashes |-> {l.files[i].hash : i \in 1..Len(l.files)},
     err    |-> CASE l.out = "transport" -> ErrTransport
                  [] l.out = "status" -> ErrNew("error: non-200 status")
                  [] OTHER -> ErrNil,
     st     |-> Sent(st, [l.call EXCEPT !.res = l.files])]

\* moveFileToFolder
moveFileToFolder(st, script, fileCode, folderID) ==
    LET r == SetFolder(st.remote, script, NextCall(st), fileCode, folderID) IN
    IF folderID = 0
    THEN [err |-> ErrNew("invalid folder ID"), st |-> st]
    ELSE [err |-> CASE r.out = "transport" ->
                         Errorf("failed to send move request", ErrTransport)
                    [] r.out = "status" -> ErrNew("error while moving file: msg")
                    [] OTHER -> ErrNil,
          st  |-> [Sent(st, r.call) EXCEPT !.remote = r.remote]]

\* the folder whose listing and decimal identifier uploadFile uses for the
\* DedupKey: strconv.Atoi(f.folderID)
dedupFolderID(fs) == Atoi(fs.folderID)

\* the folder Put relocates the uploaded file into: f.folderID, 0 when it is
\* not a number
putFolderID(fs) ==
    IF Atoi(fs.folderID).ok THEN Atoi(fs.folderID).val ELSE 0

\* the folder MoveTo hands to uploadFileWithFolder: f.root, 0 when it is not
\* a number
moveToFolderID(fs) == IF Atoi(fs.root).ok THEN Atoi(fs.root).val ELSE 0

\* the folder Object.Update relocates the uploaded file into: none (0) for
\* the empty root, else f.root, which has to be a number
updateFolderID(fs) ==
    IF fs.root = <<>> THEN [ok |-> TRUE, val |-> 0] ELSE Atoi(fs.root)

\* uploadFile up to its verdict on the duplicate: the temporary file, the
\* fingerprint, the listing of the folder and the lookup of the key
uploadCheck(fs, st, script, fileContent) ==
    LET a == dedupFolderID(fs)
        Fail(err, s) == [file |-> [name |-> 0, data |-> "empty",
                                   open |-> FALSE],
                         dup |-> FALSE, err |-> err, st |-> s]
    IN
    Bind(createTempFileFromReader(st, fileContent), LAMBDA t :
    IF t.err # ErrNil
    THEN Fail(Errorf("failed to create temp file", t.err), t.st)
    ELSE
    Bind(ComputeMD5(t.st.disk, t.file.name), LAMBDA h :
    IF h.err # ErrNil
    THEN Fail(Errorf("failed to compute file hash", h.err), t.st)
    ELSE IF ~a.ok
    THEN Fail(ErrNew("invalid folder ID, cannot proceed"), t.st)
    ELSE
    Bind(FetchRemoteFileHashes(t.st, script, a.val), LAMBDA r :
    IF r.err # ErrNil
    THEN Fail(Errorf("failed to fetch remote file hashes", r.err), r.st)
    ELSE IF (h.hash \o Itoa(a.val)) \in r.hashes
    THEN [file |-> t.file, dup |-> TRUE,
          err |-> DuplicateFileError(h.hash \o Itoa(a.val)),
          st |-> Logged(r.st, "Duplicate file detected, upload skipped")]
    ELSE [file |-> t.file, dup |-> FALSE, err |-> ErrNil, st |-> r.st])))

\* the decoded answer of the upload request: a list of entries, one for the
\* file when the remote stored it; an answer that reports a failure carries
\* one entry whose status is not OK, or no entry at all
UploadReply(up, empty) ==
    IF up.out = "ok"
    THEN <<[file_code |-> up.fileCode, file_status |-> "OK"]>>
    ELSE IF empty THEN <<>>
    ELSE <<[file_code |-> <<>>, file_status |-> "ERROR"]>>

\* uploadFile on the decoded answer.  The failure branch is taken for an
\* empty list too and formats result[0].FileStatus: on an empty list the
\* index is out of range and the goroutine panics instead of returning.
uploadAnswer(result) ==
    IF Len(result) = 0
    THEN [fileCode |-> <<>>, err |-> ErrNil, panic |-> TRUE]
    ELSE IF result[1].file_status # "OK"
    THEN [fileCode |-> <<>>, err |-> ErrNew("upload failed with status"),
          panic |-> FALSE]
    ELSE [fileCode |-> result[1].file_code, err |-> ErrNil, panic |-> FALSE]

\* uploadFile after the verdict: the multipart body built from the temporary
\* file, the request and its answer
uploadSend(st, script, uploadURL, sessionID, fileName, file) ==
    LET Fail(err, s) == [fileCode |-> <<>>, err |-> err, st |-> s] IN
    IF ~file.open
    THEN Fail(Errorf("failed to copy file content", ErrClosed), st)
    ELSE
    Bind(Upload(st.remote, script, NextCall(st), uploadURL, sessionID,
                fileName, file.data), LAMBDA up :
    IF up.out = "transport"
    THEN Fail(Errorf("failed to send request", ErrTransport),
              Sent(st, up.call))
    ELSE
    Bind(uploadAnswer(UploadReply(up, FALSE)), LAMBDA a :
    [fileCode |-> a.fileCode, err |-> a.err,
     st |-> [Sent(st, up.call) EXCEPT !.remote = up.remote]]))

\* uploadFile as filelu.go has it: the body is copied from the reader itself
\* and sent, with no temporary file and no verdict on duplicates; `empty`
\* says which of the failure answers the remote gives
uploadFileDirect(st, script, uploadURL, sessionID, fileName, fileContent, empty) ==
    LET Fail(err, s) == [fileCode |-> <<>>, err |-> err, panic |-> FALSE,
                         st |-> s]
    IN
    IF ~fileContent.open
    THEN Fail(Errorf("failed to copy file content", ErrClosed), st)
    ELSE
    Bind(Upload(st.remote, script, NextCall(st), uploadURL, sessionID,
                fileName, fileContent.data), LAMBDA up :
    IF up.out = "transport"
    THEN Fail(Errorf("failed to send request", ErrTransport),
              Sent(st, up.call))
    ELSE
    Bind(uploadAnswer(UploadReply(up, empty)), LAMBDA a :
    [fileCode |-> a.fileCode, err |-> a.err, panic |-> a.panic,
     st |-> [Sent(st, up.call) EXCEPT !.remote = up.remote]]))

\* uploadFile
uploadFile(fs, st, script, uploadURL, sessionID, fileName, fileContent) ==
    Bind(uploadCheck(fs, st, script, fileContent), LAMBDA c :
    IF c.err # ErrNil
    THEN [fileCode |-> <<>>, err |-> c.err, st |-> c.st]
    ELSE uploadSend(c.st, script, uploadURL, sessionID, fileName, c.file))

\* uploadFileWithFolder
uploadFileWithFolder(fs, st, script, uploadURL, sessionID, fileName, fileContent, folderID) ==
    Bind(uploadFile(fs, st, script, uploadURL, sessionID, fileName,
                    fileContent), LAMBDA u :
    IF u.err # ErrNil
    THEN [fileCode |-> <<>>, st |-> u.st,
          err |-> Errorf("failed to upload file", u.err)]
    ELSE IF folderID = 0
    THEN [fileCode |-> u.fileCode, err |-> ErrNil, st |-> u.st]
    ELSE
    Bind(moveFileToFolder(u.st, script, u.fileCode, folderID), LAMBDA m :
    IF m.err # ErrNil
    THEN [fileCode |-> <<>>, st |-> m.st,
          err |-> Errorf("failed to move file to folder", m.err)]
    ELSE [fileCode |-> u.fileCode, err |-> ErrNil, st |-> m.st]))

\* Fs.Put
Put(fs, st, script, in, src) ==
    LET folderID == putFolderID(fs)
        Fail(err, s) == [obj |-> FALSE, err |-> err, st |-> s]
    IN
    Bind(createTempFileFromReader(st, in), LAMBDA t :
    IF t.err # ErrNil
    THEN Fail(Errorf("failed to create temp file", t.err), t.st)
    ELSE
    Bind(ComputeMD5(t.st.disk, t.file.name), LAMBDA h :
    IF h.err # ErrNil
    THEN Fail(Errorf("failed to compute file hash", h.err), t.st)
    ELSE
    Bind(FetchRemoteFileHashes(t.st, script, folderID), LAMBDA r :
    IF r.err # ErrNil
    THEN Fail(Errorf("failed to fetch remote file hashes", r.err), r.st)
    ELSE
    Bind(IF (h.hash \o Itoa(folderID)) \in r.hashes
         THEN Logged(r.st, "Detected duplicate file, skipping upload.")
         ELSE r.st, LAMBDA s1 :
    Bind(getUploadServer(s1, script), LAMBDA g :
    IF g.err # ErrNil
    THEN Fail(Errorf("failed to retrieve upload server", g.err), g.st)
    ELSE
    Bind(uploadFile(fs, g.st, script, g.url, g.sessID, src, t.file),
         LAMBDA u :
    IF u.err # ErrNil
    THEN Fail(Errorf("failed to upload file", u.err), u.st)
    ELSE IF folderID = 0
    THEN [obj |-> TRUE, err |-> ErrNil, st |-> u.st]
    ELSE
    Bind(moveFileToFolder(u.st, script, u.fileCode, folderID), LAMBDA m :
    IF m.err # ErrNil
    THEN Fail(Errorf("failed to move file to folder ID", m.err), m.st)
    ELSE [obj |-> TRUE, err |-> ErrNil, st |-> m.st])))))))

\* getDirectLink
getDirectLink(st, script, fileCode) ==
    LET code == TrimSpace(fileCode)
        r    == DirectLink(st.remote, script, NextCall(st), code)
    IN  IF code = <<>>
        THEN [code |-> code, url |-> <<>>, size |-> 0,
              err |-> ErrNew("empty file code"), st |-> st]
        ELSE [code |-> code,
              url  |-> r.url,
              size |-> r.size,
              err  |-> CASE r.out = "transport" ->
                          Errorf("failed to fetch direct link", ErrTransport)
                         [] r.out = "status" -> ErrNew("error: msg")
                         [] OTHER -> ErrNil,
              st   |-> Sent(st, r.call)]

\* Object.Open of the object with the remote name o
ObjectOpen(fs, st, script, o) ==
    LET Fail(err, s) == [reader |-> [data |-> "empty", open |-> FALSE],
                         err |-> err, st |-> s]
    IN
    Bind(getDirectLink(st, script, IF fs.root = <<>> THEN o ELSE fs.root),
         LAMBDA d :
    IF d.err # ErrNil
    THEN Fail(Errorf("failed to get direct link", d.err), d.st)
    ELSE
    Bind(Download(d.st.remote, script, NextCall(d.st), d.code), LAMBDA g :
    IF g.out = "transport"
    THEN Fail(Errorf("failed to download file", ErrTransport),
              Sent(d.st, g.call))
    ELSE IF g.out = "status"
    THEN Fail(ErrNew("failed to download file: HTTP"), Sent(d.st, g.call))
    ELSE [reader |-> Reader(g.data), err |-> ErrNil,
          st |-> Sent(d.st, g.call)]))

\* Fs.DeleteFile
DeleteFile(st, script, fileCode) ==
    LET r == FileRemove(st.remote, script, NextCall(st), fileCode) IN
    [err |-> CASE r.out = "transport" ->
                    Errorf("failed to send delete request", ErrTransport)
               [] r.out = "status" -> ErrNew("error while deleting file: msg")
               [] OTHER -> ErrNil,
     st  |-> [Sent(st, r.call) EXCEPT !.remote = r.remote]]

\* the file code Object.Remove takes for the object with the remote name o:
\* the root when it is a file code, else what "(" and the first ")" of the
\* remote name enclose
removeFileCode(fs, o) ==
    IF isFileCode(fs.root) THEN fs.root
    ELSE IF HasPrefix(o, <<"(">>) /\ Index(o, ")") # -1
    THEN TrimSpace(Slice(o, 1, Index(o, ")")))
    ELSE <<>>

\* Object.Remove of the object with the remote name o
ObjectRemove(fs, st, script, o) ==
    LET fileCode == removeFileCode(fs, o)
    IN  IF ~isFileCode(fileCode)
        THEN [err |-> ErrNew("invalid file code"), st |-> st]
        ELSE DeleteFile(st, script, fileCode)

\* the source removed also when the upload was skipped as a duplicate: the
\* duplicate taken for a move that is done
removeSourceOfDuplicate(fs, st, script, src, uploadErr) ==
    IF /\ uploadErr # ErrNil
       /\ \A i \in 1..Len(uploadErr) : uploadErr[i].t # "*DuplicateFileError"
    THEN [obj |-> FALSE, err |-> uploadErr, st |-> st]
    ELSE
    Bind(ObjectRemove(fs, st, script, src), LAMBDA d :
    IF d.err # ErrNil
    THEN [obj |-> FALSE, st |-> d.st,
          err |-> Errorf("failed to delete source file after move", d.err)]
    ELSE [obj |-> TRUE, err |-> ErrNil, st |-> d.st])

\* the source removed whatever the upload returned
removeSourceAlways(fs, st, script, src, uploadErr) ==
    Bind(ObjectRemove(fs, st, script, src), LAMBDA d :
    IF uploadErr # ErrNil
    THEN [obj |-> FALSE, err |-> uploadErr, st |-> d.st]
    ELSE IF d.err # ErrNil
    THEN [obj |-> FALSE, st |-> d.st,
          err |-> Errorf("failed to delete source file after move", d.err)]
    ELSE [obj |-> TRUE, err |-> ErrNil, st |-> d.st])

\* the end of MoveTo and of moveSingleFile: the upload's error is returned,
\* and only when there is none is the source removed
removeSource(fs, st, script, src, uploadErr) ==
    IF uploadErr # ErrNil
    THEN [obj |-> FALSE, err |-> uploadErr, st |-> st]
    ELSE
    Bind(ObjectRemove(fs, st, script, src), LAMBDA d :
    IF d.err # ErrNil
    THEN [obj |-> FALSE, st |-> d.st,
          err |-> Errorf("failed to delete source file after move", d.err)]
    ELSE [obj |-> TRUE, err |-> ErrNil, st |-> d.st])

\* Fs.moveSingleFile
moveSingleFile(fs, st, script, src) ==
    Bind(ObjectOpen(fs, st, script, src), LAMBDA o :
    IF o.err # ErrNil
    THEN [obj |-> FALSE, st |-> o.st,
          err |-> Errorf("failed to open source object", o.err)]
    ELSE
    Bind(Put(fs, o.st, script, o.reader, src), LAMBDA p :
    removeSource(fs, p.st, script, src,
                 IF p.err # ErrNil
                 THEN Errorf("failed to move file to destination", p.err)
                 ELSE ErrNil)))

\* Fs.MoveTo
MoveTo(fs, st, script, src) ==
    LET folderID == moveToFolderID(fs) IN
    Bind(ObjectOpen(fs, st, script, src), LAMBDA o :
    IF o.err # ErrNil
    THEN [obj |-> FALSE, st |-> o.st,
          err |-> Errorf("failed to open source object", o.err)]
    ELSE
    Bind(getUploadServer(o.st, script), LAMBDA g :
    IF g.err # ErrNil
    THEN [obj |-> FALSE, st |-> g.st,
          err |-> Errorf("failed to retrieve upload server", g.err)]
    ELSE
    Bind(uploadFileWithFolder(fs, g.st, script, g.url, g.sessID, src,
                              o.reader, folderID), LAMBDA u :
    removeSource(fs, u.st, script, src,
                 IF u.err # ErrNil
                 THEN Errorf("failed to upload and move file", u.err)
                 ELSE ErrNil))))

\* Object.Update from the answer of uploadFile onward
updateAfterUpload(fs, script, u) ==
    LET a == updateFolderID(fs) IN
    IF u.err # ErrNil
    THEN [err |-> Errorf("failed to upload file", u.err), st |-> u.st]
    ELSE IF ~a.ok
    THEN [err |-> Errorf("invalid folder ID in root",
                         ErrNew("strconv.NumError")),
          st  |-> u.st]
    ELSE IF a.val = 0
    THEN [err |-> ErrNil, st |-> u.st]
    ELSE
    Bind(moveFileToFolder(u.st, script, u.fileCode, a.val), LAMBDA m :
    IF m.err # ErrNil
    THEN [err |-> NoRetryError(Errorf("failed to move file to folder ID",
                                      m.err)),
          st  |-> m.st]
    ELSE [err |-> ErrNil, st |-> m.st])

\* Object.Update of the object with the remote name o
ObjectUpdate(fs, st, script, o, in) ==
    Bind(getUploadServer(st, script), LAMBDA g :
    IF g.err # ErrNil
    THEN [err |-> Errorf("failed to get upload server", g.err), st |-> g.st]
    ELSE
    Bind(uploadFile(fs, g.st, script, g.url, g.sessID, o, in), LAMBDA u :
    updateAfterUpload(fs, script, u)))

----------------------------------------------------------------------------
(* Listing and objects.                                                    *)

\* a directory entry named by the name of the folder alone
nameWithoutID(id, name) == name

\* fmt.Sprintf("(%d) %s", folder.FldID, folder.Name) in listDirectory
nameWithID(id, name) == <<"(">> \o Itoa(id) \o <<")", " ">> \o name

\* fmt.Sprintf("(%s) %s", file.Code, file.Name) in listDirectory
nameWithCode(code, name) == <<"(">> \o code \o <<")", " ">> \o name

\* the remote name listDirectory gives the entry with the segment seg
fullPath(dir, seg) ==
    LET currentDir == IF dir # <<>> /\ ~HasSuffix(dir, <<"/">>)
                      THEN dir \o <<"/">> ELSE dir
    IN  IF currentDir # <<>> THEN Join(currentDir, seg) ELSE seg

\* the entries of listDirectory in the order the folders are listed
dirEntries(dir, folders) ==
    [i \in 1..Len(folders) |->
        [kind   |-> "dir",
         remote |-> fullPath(dir, nameWithID(folders[i].id, folders[i].name)),
         size   |-> 0]]

\* the entries of listDirectory in the order the files are listed
fileEntries(dir, files) ==
    [i \in 1..Len(files) |->
        [kind   |-> "file",
         remote |-> fullPath(dir, nameWithCode(files[i].code, files[i].name)),
         size   |-> Len(Content(files[i].data))]]

\* an answer of listDirectory that puts the files before the folders
entriesFilesFirst(dir, folders, files) ==
    fileEntries(dir, files) \o dirEntries(dir, folders)

\* the entries listDirectory returns: the folders, then the files
entriesOf(dir, folders, files) ==
    dirEntries(dir, folders) \o fileEntries(dir, files)

\* listDirectory
listDirectory(st, script, folderID, dir) ==
    Bind(FolderList(st.remote, script, NextCall(st), folderID), LAMBDA l :
    IF l.out = "transport"
    THEN [entries |-> <<>>,
          err |-> Errorf("failed to list directory", ErrTransport),
          st |-> Sent(st, l.call)]
    ELSE IF l.out = "status"
    THEN [entries |-> <<>>, err |-> ErrNew("error: msg"),
          st |-> Sent(st, l.call)]
    ELSE [entries |-> entriesOf(dir, l.folders, l.files), err |-> ErrNil,
          st |-> Sent(st, l.call)])

(* net/url, as far as extractFileName uses it: url.Parse and the Path of   *)
(* the URL it returns.  A string is a sequence of bytes; a byte outside    *)
(* the printable ASCII range that has no escape of its own is written      *)
(* "\xNN".                                                                 *)

Upper == {"A", "B", "C", "D", "E", "F", "G", "H", "I", "J", "K", "L", "M",
          "N", "O", "P", "Q", "R", "S", "T", "U", "V", "W", "X", "Y", "Z"}

\* the bytes 0x20 to 0x7e (the grave accent 0x60 is written "\x60")
Printable ==
    <<" ", "!", "\"", "#", "$", "%", "&", "'", "(", ")", "*", "+", ",", "-",
      ".", "/", "0", "1", "2", "3", "4", "5", "6", "7", "8", "9", ":", ";",
      "<", "=", ">", "?", "@", "A", "B", "C", "D", "E", "F", "G", "H", "I",
      "J", "K", "L", "M", "N", "O", "P", "Q", "R", "S", "T", "U", "V", "W",
      "X", "Y", "Z", "[", "\\", "]", "^", "_", "\\x60", "a", "b", "c", "d",
      "e", "f", "g", "h", "i", "j", "k", "l", "m", "n", "o", "p", "q", "r",
      "s", "t", "u", "v", "w", "x", "y", "z", "{", "|", "}", "~">>

HexDigits ==
    <<"0", "1", "2", "3", "4", "5", "6", "7", "8", "9", "a", "b", "c", "d",
      "e", "f">>

\* the byte of value v as a character of a string
ByteChar(v) ==
    IF v >= 32 /\ v <= 126 THEN Printable[v - 31]
    ELSE CASE v = 9  -> "\t"
           [] v = 10 -> "\n"
           [] v = 11 -> "\\v"
           [] v = 12 -> "\f"
           [] v = 13 -> "\r"
           [] OTHER  -> "\\x" \o HexDigits[(v \div 16) + 1]
                              \o HexDigits[(v % 16) + 1]

\* the ASCII bytes, and those stringContainsCTLByte looks for
AsciiBytes == {ByteChar(v) : v \in 0..127}

CTLBytes == {ByteChar(v) : v \in (0..31) \cup {127}}

\* ishex and unhex
ishex(c) ==
    c \in Digit \cup {"a", "b", "c", "d", "e", "f",
                      "A", "B", "C", "D", "E", "F"}

unhex(c) ==
    CASE c \in Digit       -> DigitVal(c)
      [] c \in {"a", "A"}  -> 10
      [] c \in {"b", "B"}  -> 11
      [] c \in {"c", "C"}  -> 12
      [] c \in {"d", "D"}  -> 13
      [] c \in {"e", "E"}  -> 14
      [] c \in {"f", "F"}  -> 15
      [] OTHER             -> 0

\* strings.Cut at a one-character separator: what is before its first
\* occurrence and what is after it
CutBefore(s, c) == IF Index(s, c) < 0 THEN s ELSE Slice(s, 0, Index(s, c))

CutAfter(s, c) ==
    IF Index(s, c) < 0 THEN <<>> ELSE SliceFrom(s, Index(s, c) + 1)

\* strings.Index for a needle of several characters
IndexOf(s, sub) ==
    IF \E i \in 0..(Len(s) - Len(sub)) : HasPrefix(SliceFrom(s, i), sub)
    THEN CHOOSE i \in 0..(Len(s) - Len(sub)) :
             /\ HasPrefix(SliceFrom(s, i), sub)
             /\ \A j \in 0..(i - 1) : ~HasPrefix(SliceFrom(s, j), sub)
    ELSE -1

\* shouldEscape in the mode of a host or of a zone: the byte is none of
\* those a host may hold as it is
shouldEscapeHost(c) ==
    c \notin Lower \cup Upper \cup Digit \cup
             {"!", "$", "&", "'", "(", ")", "*", "+", ",", ";", "=", ":",
              "[", "]", "<", ">", "\"", "-", "_", ".", "~"}

\* unescape in the mode of a path, of a fragment or of a user name and
\* password from the 1-based position i: every "%" is followed by two
\* hexadecimal digits and stands for the byte they denote
RECURSIVE unescapeFrom(_, _, _)
unescapeFrom(s, i, acc) ==
    IF i > Len(s) THEN [ok |-> TRUE, s |-> acc]
    ELSE IF s[i] = "%"
    THEN IF i + 2 > Len(s) \/ ~ishex(s[i + 1]) \/ ~ishex(s[i + 2])
         THEN [ok |-> FALSE, s |-> <<>>]
         ELSE unescapeFrom(s, i + 3,
                  Append(acc, ByteChar(16 * unhex(s[i + 1]) + unhex(s[i + 2]))))
    ELSE unescapeFrom(s, i + 1, Append(acc, s[i]))

unescape(s) == unescapeFrom(s, 1, <<>>)

\* unescape in the mode of a host (zone FALSE) or of a zone (zone TRUE)
\* succeeds: an escape stands for a byte of 0x80 and more or is "%25", in
\* a zone also for a space or a byte a host may hold; an ASCII byte is one
\* a host may hold
RECURSIVE unescapeHostOK(_, _, _)
unescapeHostOK(s, i, zone) ==
    IF i > Len(s) THEN TRUE
    ELSE IF s[i] = "%"
    THEN /\ i + 2 <= Len(s) /\ ishex(s[i + 1]) /\ ishex(s[i + 2])
         /\ ~zone => unhex(s[i + 1]) >= 8 \/ SubSeq(s, i, i + 2) = <<"%", "2", "5">>
         /\ zone =>
              \/ SubSeq(s, i, i + 2) = <<"%", "2", "5">>
              \/ 16 * unhex(s[i + 1]) + unhex(s[i + 2]) = 32
              \/ ~shouldEscapeHost(
                     ByteChar(16 * unhex(s[i + 1]) + unhex(s[i + 2])))
         /\ unescapeHostOK(s, i + 3, zone)
    ELSE /\ s[i] \in AsciiBytes => ~shouldEscapeHost(s[i])
         /\ unescapeHostOK(s, i + 1, zone)

\* validOptionalPort: nothing, or ":" and decimal digits
validOptionalPort(port) ==
    \/ port = <<>>
    \/ /\ port[1] = ":"
       /\ \A i \in 2..Len(port) : port[i] \in Digit

\* parseHost succeeds
parseHostOK(host) ==
    /\ IF HasPrefix(host, <<"[">>)
       THEN /\ LastIndex(host, "]") >= 0
            /\ validOptionalPort(SliceFrom(host, LastIndex(host, "]") + 1))
       ELSE LastIndex(host, ":") >= 0
                => validOptionalPort(SliceFrom(host, LastIndex(host, ":")))
    /\ IF /\ HasPrefix(host, <<"[">>)
          /\ LastIndex(host, "]") >= 0
          /\ IndexOf(Slice(host, 0, LastIndex(host, "]")),
                     <<"%", "2", "5">>) >= 0
       THEN LET i    == LastIndex(host, "]")
                zone == IndexOf(Slice(host, 0, i), <<"%", "2", "5">>)
            IN  /\ unescapeHostOK(Slice(host, 0, zone), 1, FALSE)
                /\ unescapeHostOK(Slice(host, zone, i), 1, TRUE)
                /\ unescapeHostOK(SliceFrom(host, i), 1, FALSE)
       ELSE unescapeHostOK(host, 1, FALSE)

\* validUserinfo
validUserinfo(s) ==
    \A i \in 1..Len(s) :
        s[i] \in Lower \cup Upper \cup Digit \cup
                 {"-", ".", "_", ":", "~", "!", "$", "&", "'", "(", ")",
                  "*", "+", ",", ";", "=", "%", "@"}

\* parseAuthority succeeds: the host after the last "@" parses, and what
\* is before it is a valid user name and password
parseAuthorityOK(authority) ==
    LET i == LastIndex(authority, "@") IN
    IF i < 0 THEN parseHostOK(authority)
    ELSE /\ parseHostOK(SliceFrom(authority, i + 1))
         /\ validUserinfo(Slice(authority, 0, i))
         /\ unescape(CutBefore(Slice(authority, 0, i), ":")).ok
         /\ unescape(CutAfter(Slice(authority, 0, i), ":")).ok

\* getScheme from the 1-based position i: the letters, digits, "+", "-"
\* and "." before the first ":" when the first of them is a letter
RECURSIVE getSchemeFrom(_, _)
getSchemeFrom(rawURL, i) ==
    IF i > Len(rawURL)
    THEN [ok |-> TRUE, scheme |-> <<>>, rest |-> rawURL]
    ELSE IF rawURL[i] \in Lower \cup Upper
    THEN getSchemeFrom(rawURL, i + 1)
    ELSE IF rawURL[i] \in Digit \cup {"+", "-", "."}
    THEN IF i = 1 THEN [ok |-> TRUE, scheme |-> <<>>, rest |-> rawURL]
         ELSE getSchemeFrom(rawURL, i + 1)
    ELSE IF rawURL[i] = ":"
    THEN IF i = 1 THEN [ok |-> FALSE, scheme |-> <<>>, rest |-> <<>>]
         ELSE [ok |-> TRUE, scheme |-> SubSeq(rawURL, 1, i - 1),
               rest |-> SubSeq(rawURL, i + 1, Len(rawURL))]
    ELSE [ok |-> TRUE, scheme |-> <<>>, rest |-> rawURL]

getScheme(rawURL) == getSchemeFrom(rawURL, 1)

\* the Path of the URL that parse returns for a string without a fragment
parsePath(rawURL) ==
    LET Fail == [ok |-> FALSE, path |-> <<>>] IN
    IF \E i \in 1..Len(rawURL) : rawURL[i] \in CTLBytes THEN Fail
    ELSE IF rawURL = <<"*">> THEN [ok |-> TRUE, path |-> rawURL]
    ELSE
    Bind(getScheme(rawURL), LAMBDA g :
    IF ~g.ok THEN Fail
    ELSE
    Bind(IF HasSuffix(g.rest, <<"?">>) /\ Index(g.rest, "?") = Len(g.rest) - 1
         THEN Slice(g.rest, 0, Len(g.rest) - 1)
         ELSE CutBefore(g.rest, "?"), LAMBDA rest :
    IF ~HasPrefix(rest, <<"/">>) /\ g.scheme # <<>>
    THEN [ok |-> TRUE, path |-> <<>>]
    ELSE IF /\ ~HasPrefix(rest, <<"/">>)
            /\ Index(CutBefore(rest, "/"), ":") >= 0
    THEN Fail
    ELSE IF /\ g.scheme # <<>> \/ ~HasPrefix(rest, <<"/", "/", "/">>)
            /\ HasPrefix(rest, <<"/", "/">>)
    THEN IF ~parseAuthorityOK(CutBefore(SliceFrom(rest, 2), "/"))
         THEN Fail
         ELSE Bind(unescape(IF Index(SliceFrom(rest, 2), "/") < 0 THEN <<>>
                            ELSE SliceFrom(rest,
                                     2 + Index(SliceFrom(rest, 2), "/"))),
                   LAMBDA p : IF p.ok THEN [ok |-> TRUE, path |-> p.s]
                              ELSE Fail)
    ELSE Bind(unescape(rest),
              LAMBDA p : IF p.ok THEN [ok |-> TRUE, path |-> p.s]
                         ELSE Fail)))

\* url.Parse, and the Path of the URL it returns: the fragment after the
\* first "#" is cut off and unescaped
urlParse(rawURL) ==
    Bind(parsePath(CutBefore(rawURL, "#")), LAMBDA u :
    IF u.ok /\ ~unescape(CutAfter(rawURL, "#")).ok
    THEN [ok |-> FALSE, path |-> <<>>]
    ELSE u)

\* extractFileName: path.Base of the Path of the parsed URL, the empty
\* string for a URL that does not parse
extractFileName(urlStr) ==
    Bind(urlParse(urlStr), LAMBDA u :
    IF ~u.ok THEN <<>> ELSE Base(u.path))

\* a List that treats every root as a folder
ListFolderOnly(fs, st, script, dir) ==
    Bind(resolveFolderPath(st.remote, script, dir, st.calls), LAMBDA r :
    IF r.err # ErrNil
    THEN [entries |-> <<>>,
          err |-> Errorf("failed to resolve folder path", r.err),
          st |-> [st EXCEPT !.calls = r.calls]]
    ELSE listDirectory([st EXCEPT !.calls = r.calls], script, r.val, dir))

\* Fs.List
List(fs, st, script, dir) ==
    IF isFileCode(fs.root)
    THEN Bind(getDirectLink(st, script, fs.root), LAMBDA d :
         IF d.err # ErrNil
         THEN [entries |-> <<>>,
               err |-> Errorf("failed to get direct link", d.err),
               st |-> d.st]
         ELSE [entries |-> <<[kind |-> "file",
                              remote |-> extractFileName(d.url),
                              size |-> d.size]>>,
               err |-> ErrNil, st |-> d.st])
    ELSE Bind(resolveFolderPath(st.remote, script, dir, st.calls), LAMBDA r :
         IF r.err # ErrNil
         THEN [entries |-> <<>>,
               err |-> Errorf("failed to resolve folder path", r.err),
               st |-> [st EXCEPT !.calls = r.calls]]
         ELSE listDirectory([st EXCEPT !.calls = r.calls], script, r.val, dir))

\* Fs.NewObject: the remote name and the size of the object it returns
NewObject(fs, st, script, remoteName) ==
    IF isFileCode(fs.root)
    THEN Bind(getDirectLink(st, script, fs.root), LAMBDA d :
         IF d.err # ErrNil
         THEN [obj |-> FALSE, remote |-> <<>>, size |-> 0,
               err |-> Errorf("failed to get direct link", d.err), st |-> d.st]
         ELSE [obj |-> TRUE, remote |-> extractFileName(d.url),
               size |-> d.size, err |-> ErrNil, st |-> d.st])
    ELSE [obj |-> TRUE, remote |-> remoteName, size |-> 0, err |-> ErrNil,
          st |-> st]

\* Fs.Mkdir
Mkdir(fs, st, script, dir) ==
    LET d         == IF dir = <<>> THEN fs.root ELSE dir
        parentDir == Dir(d)
        create(parentID, s) ==
            Bind(FolderCreate(s.remote, script, NextCall(s), parentID,
                              Base(d)), LAMBDA c :
            [err |-> CASE c.out = "transport" ->
                            Errorf("failed to create folder", ErrTransport)
                       [] c.out = "status" -> ErrNew("error: msg")
                       [] OTHER -> ErrNil,
             st  |-> [Sent(s, c.call) EXCEPT !.remote = c.remote]])
    IN  IF d = <<>>
        THEN [err |-> ErrNew("directory name cannot be empty"), st |-> st]
        ELSE IF parentDir # <<".">> /\ parentDir # <<"/">>
        THEN Bind(resolveFolderPath(st.remote, script, parentDir, st.calls),
                  LAMBDA r :
             IF r.err # ErrNil
             THEN [err |-> Errorf("failed to resolve parent folder path",
                                  r.err),
                   st |-> [st EXCEPT !.calls = r.calls]]
             ELSE create(r.val, [st EXCEPT !.calls = r.calls]))
        ELSE create(0, st)

\* Fs.Remove of the directory dir
FsRemove(fs, st, script, dir) ==
    Bind(getFolderID(fs, st.remote, script, dir, st.calls), LAMBDA g :
    IF g.err # ErrNil
    THEN [err |-> Errorf("failed to get folder ID for", g.err),
          st |-> [st EXCEPT !.calls = g.calls]]
    ELSE
    Bind(FolderDelete(st.remote, script, Len(g.calls) + 1, g.val), LAMBDA x :
    [err |-> CASE x.out = "transport" ->
                    Errorf("failed to delete folder", ErrTransport)
               [] x.out = "status" -> ErrNew("error: msg")
               [] OTHER -> ErrNil,
     st  |-> [st EXCEPT !.calls = Append(g.calls, x.call),
                        !.remote = x.remote]]))

\* the "delete" command: its loop over the arguments from the i-th on
RECURSIVE deleteArgs(_, _, _, _, _)
deleteArgs(fs, st, script, args, i) ==
    IF i > Len(args) THEN [err |-> ErrNil, st |-> st]
    ELSE
    Bind(NewObject(fs, st, script, args[i]), LAMBDA n :
    IF n.err # ErrNil
    THEN [err |-> Errorf("failed to find object", n.err), st |-> n.st]
    ELSE
    Bind(ObjectRemove(fs, n.st, script, n.remote), LAMBDA r :
    IF r.err # ErrNil
    THEN [err |-> Errorf("failed to delete", r.err), st |-> r.st]
    ELSE deleteArgs(fs, r.st, script, args, i + 1)))

\* fs.ErrorCommandNotFound
ErrorCommandNotFound ==
    <<[t |-> "fs.ErrorCommandNotFound", m |-> "command not found"]>>

\* Fs.Command
Command(fs, st, script, name, args) ==
    IF name = "delete"
    THEN IF Len(args) = 0
         THEN [err |-> ErrNew("delete requires at least one path"), st |-> st]
         ELSE deleteArgs(fs, st, script, args, 1)
    ELSE [err |-> ErrorCommandNotFound, st |-> st]

\* moveDirectoryContents and its loop over the entries from the i-th on;
\* `moves` are the calls of MoveTo so far, each with the remote name of the
\* source and the destination it was given
RECURSIVE moveDirectoryContents(_, _, _, _, _, _)
RECURSIVE moveEntries(_, _, _, _, _, _, _)
moveEntries(fs, st, script, entries, i, dest, moves) ==
    IF i > Len(entries) THEN [err |-> ErrNil, st |-> st, moves |-> moves]
    ELSE IF entries[i].kind = "dir"
    THEN Bind(moveDirectoryContents(fs, st, script, entries[i].remote,
                                    Join(dest, entries[i].remote), moves),
              LAMBDA r :
         IF r.err # ErrNil THEN r
         ELSE moveEntries(fs, r.st, script, entries, i + 1, dest, r.moves))
    ELSE Bind(MoveTo(fs, st, script, entries[i].remote), LAMBDA r :
         Bind(Append(moves, [src  |-> entries[i].remote,
                             dest |-> Join(dest, entries[i].remote)]),
              LAMBDA ms :
         IF r.err # ErrNil
         THEN [err |-> r.err, st |-> r.st, moves |-> ms]
         ELSE moveEntries(fs, r.st, script, entries, i + 1, dest, ms)))

moveDirectoryContents(fs, st, script, dir, dest, moves) ==
    Bind(List(fs, st, script, dir), LAMBDA l :
    IF l.err # ErrNil
    THEN [err |-> Errorf("failed to list directory contents", l.err),
          st |-> l.st, moves |-> moves]
    ELSE moveEntries(fs, l.st, script, l.entries, 1, dest, moves))

\* Fs.Move of the source src, a directory or a file, to the remote name dest
Move(fs, st, script, src, dest) ==
    IF src.kind = "dir"
    THEN Bind(moveDirectoryContents(fs, st, script, src.remote, dest, <<>>),
              LAMBDA r :
         IF r.err # ErrNil
         THEN [obj |-> FALSE, st |-> r.st, moves |-> r.moves,
               err |-> Errorf("failed to move directory contents", r.err)]
         ELSE [obj |-> TRUE, st |-> r.st, moves |-> r.moves, err |-> ErrNil])
    ELSE Bind(MoveTo(fs, st, script, src.remote), LAMBDA r :
         [obj |-> r.obj, st |-> r.st, err |-> r.err,
          moves |-> <<[src |-> src.remote, dest |-> dest]>>])

\* the body of the answer to the download arrives in chunks: the first
\* ones hold `got` bytes each, the n-th the rest.  A body without bytes is
\* one read that finds its end
RECURSIVE Chunks(_, _, _)
Chunks(bytes, got, n) ==
    IF n <= 1 \/ Len(bytes) <= got THEN <<bytes>>
    ELSE <<SubSeq(bytes, 1, got)>>
         \o Chunks(SubSeq(bytes, got + 1, Len(bytes)), got, n - 1)

\* one Read of io.Copy from the body of the download of the file `code`:
\* the next chunk arrives, or the connection breaks
ReadBody(script, k, code) ==
    LET out == IF Outcome(script, k) = "transport" THEN "transport" ELSE "ok"
    IN  [out  |-> out,
         call |-> Call("download/body", 0, code, out, <<>>)]

\* a read of the body that the connection broke
ErrRead == <<[t |-> "net.Error", m |-> "read"]>>

\* io.Copy from the body to the local file, from the i-th chunk on: each
\* chunk is read and then written, and the first read that fails ends the
\* copy with what was written before it.  `written` counts the chunks that
\* reached the file
RECURSIVE ioCopy(_, _, _, _, _)
ioCopy(st, script, code, chunks, i) ==
    IF i > Len(chunks) THEN [err |-> ErrNil, st |-> st, written |-> i - 1]
    ELSE
    Bind(ReadBody(script, NextCall(st), code), LAMBDA b :
    IF b.out = "transport"
    THEN [err |-> ErrRead, st |-> Sent(st, b.call), written |-> i - 1]
    ELSE ioCopy(Sent(st, b.call), script, code, chunks, i + 1))

\* os.Create of the local path, a step of its own after Object.Open has
\* returned: what the other callers do after the remote answered the
\* download comes before it.  It is the k-th step of the run and is not
\* taken before the steps ahead of it; it fails on the empty path.  It sends
\* nothing to the remote, and a fault scripted into its place finds no
\* request to fail
osCreate(script, k, localPath) ==
    LET out == IF IsTimed(script) /\ k > Len(script.seen) THEN "transport"
               ELSE IF localPath = <<>> THEN "error" ELSE "ok"
    IN  [out  |-> out,
         call |-> Call("os/create", 0, <<>>, out, <<>>)]

\* Fs.MoveToLocal of the object with the remote name remoteName to the local
\* path localPath.  `created` is the number of the step in which os.Create
\* made the file (0: it did not run or failed), `chunks` the chunks the
\* body arrives in and `written` how many of them io.Copy wrote to the file
MoveToLocal(fs, st, script, remoteName, localPath, got) ==
    LET Fail(err, s) == [err |-> err, st |-> s, created |-> 0,
                         chunks |-> <<>>, written |-> 0]
    IN
    Bind(NewObject(fs, st, script, remoteName), LAMBDA n :
    IF n.err # ErrNil
    THEN Fail(Errorf("failed to find object in FileLu", n.err), n.st)
    ELSE
    Bind(ObjectOpen(fs, n.st, script, n.remote), LAMBDA o :
    IF o.err # ErrNil
    THEN Fail(Errorf("failed to open file for download", o.err), o.st)
    ELSE
    Bind(osCreate(script, NextCall(o.st), localPath), LAMBDA c :
    IF c.out # "ok"
    THEN Fail(Errorf("failed to create local file", ErrNew("*fs.PathError")),
              Sent(o.st, c.call))
    ELSE
    Bind(Chunks(Content(o.reader.data), got, MaxChunks), LAMBDA chunks :
    Bind(ioCopy(Sent(o.st, c.call), script,
                o.st.calls[Len(o.st.calls)].code, chunks, 1), LAMBDA b :
    IF b.err # ErrNil
    THEN [err     |-> Errorf("failed to copy data to local file", b.err),
          st      |-> b.st,
          created |-> Len(o.st.calls) + 1,
          chunks  |-> chunks,
          written |-> b.written]
    ELSE
    Bind(ObjectRemove(fs, b.st, script, n.remote), LAMBDA r :
    [err     |-> IF r.err # ErrNil
                 THEN Errorf("failed to delete file from FileLu after move",
                             r.err)
                 ELSE ErrNil,
     st      |-> r.st,
     created |-> Len(o.st.calls) + 1,
     chunks  |-> chunks,
     written |-> b.written]))))))

\* os.Create of the path by caller c: a file that is there is truncated and
\* stays the same file, with the handles it was opened through before;
\* else a new and empty file is made.  The caller has a handle of its own
\* on the file, which writes from the start and is never closed
Create(files, localPath, c) ==
    (localPath :> [bytes |-> <<>>,
                   at    |-> IF localPath \in DOMAIN files
                             THEN (c :> 0) @@ files[localPath].at
                             ELSE (c :> 0)]) @@ files

\* one Write of io.Copy by caller c through its handle: the chunk goes
\* where the handle stands, over what another writer put there, and the
\* handle moves on by it.  Where another caller has truncated the file in
\* the meantime the handle stands beyond the end, and the bytes between
\* read as zeros.  A chunk without bytes is not written.  A file that was
\* removed from its path is no longer seen under it
Write(files, c, chunk) ==
    [p \in DOMAIN files |->
        IF c \in DOMAIN files[p].at /\ chunk # <<>>
        THEN LET off == files[p].at[c]
                 old == files[p].bytes
                 head == IF off <= Len(old) THEN SubSeq(old, 1, off)
                         ELSE old \o Bytes(off - Len(old), 0)
                 tail == SubSeq(old, off + Len(chunk) + 1, Len(old))
             IN  [bytes |-> head \o chunk \o tail,
                  at    |-> [files[p].at EXCEPT ![c] = off + Len(chunk)]]
        ELSE files[p]]

\* DeleteLocalFile: os.Remove of the path.  A file that is open is removed
\* from its path as any other, as on the systems that unlink open files
DeleteLocalFile(files, localPath) ==
    IF localPath \in DOMAIN files
    THEN [err   |-> ErrNil,
          local |-> [p \in DOMAIN files \ {localPath} |-> files[p]]]
    ELSE [err   |-> Errorf("failed to delete local file",
                           ErrNew("*fs.PathError")),
          local |-> files]


----------------------------------------------------------------------------
(* The inputs of the model.                                                *)

sEmpty   == <<>>
sDocs    == <<"d", "o", "c", "s">>
sDocsCap == <<"D", "o", "c", "s">>
sReports == <<"r", "e", "p", "o", "r", "t", "s">>
sPics    == <<"P", "i", "c", "s">>
sNine    == <<"9">>
sE42Docs == <<"(", "4", "2", ")", " ">> \o sDocs
sE17Rep  == <<"(", "1", "7", ")", " ">> \o sReports
sE5Docs  == <<"(", "5", ")", " ">> \o sDocs
sE0Docs  == <<"(", "0", ")", " ">> \o sDocs
sBadDocs == <<"(", "x", ")", " ">> \o sDocs
sCodeA   == <<"a", "b", "c", "1", "2", "3", "d", "e", "f", "4", "5", "6">>
sCodeB   == <<"z", "y", "x", "9", "8", "7", "w", "v", "u", "6", "5", "4">>
sCodeC   == <<"c", "c", "c", "0", "0", "0", "c", "c", "c", "0", "0", "3">>
sCodeD   == <<"d", "d", "d", "0", "0", "0", "d", "d", "d", "0", "0", "4">>
sATxt    == <<"a", ".", "t", "x", "t">>
sBBin    == <<"b", ".", "b", "i", "n">>
sLstB    == <<"(">> \o sCodeB \o <<")", " ">> \o sATxt
sFive9   == <<"5", ":", "9">>
sDocsX   == sDocs \o <<":", "x">>
sMyDocs  == <<"m", "y", " ">> \o sDocs
sSpDocs  == <<" ">> \o sDocs
sDocsSp  == sDocs \o <<" ">>
sTabDocs == <<"\t">> \o sDocs \o <<"\n">>
sADocs   == <<"a", "/">> \o sDocs
sE7Docs  == <<"(", "7", ")", " ">> \o sDocs
sE9Rep   == <<"(", "9", ")", " ">> \o sReports

\* the path segments the operations are given
Segments ==
    {sEmpty, sDocs, sDocsCap, sReports, sNine,
     sE42Docs, sE17Rep, sE5Docs, sE0Docs, sBadDocs}

\* the paths of at most n segments
RECURSIVE PathsOf(_)
PathsOf(n) ==
    IF n <= 1 THEN Segments
    ELSE PathsOf(n - 1)
         \cup {p \o <<"/">> \o g : p \in PathsOf(n - 1), g \in Segments}

Paths == PathsOf(MaxSegs)

\* the fault scripts of an operation that makes at most n remote calls
Scripts(n) ==
    {NoFault} \cup [at : 1..n, how : {"status", "transport"}]

\* the URLs extractFileName is given
uBadEscape ==
    <<"%", "z", "z">>

uFragment ==
    <<"/", "d", "/", "c", "/", "a", "#", "b", ".", "t", "x", "t">>

uQuery ==
    <<"/", "d", "/", "a", "b", "c", "1", "2", "3", "d", "e", "f", "4", "5",
      "6", "/", "a", ".", "t", "x", "t", "?", "t", "o", "k", "e", "n", "=",
      "1">>

uFull ==
    <<"h", "t", "t", "p", "s", ":", "/", "/", "f", "i", "l", "e", "l", "u",
      ".", "c", "o", "m", "/", "d", "/", "a", "b", "c", "1", "2", "3", "d",
      "e", "f", "4", "5", "6", "/", "a", "%", "2", "0", "b", ".", "t", "x",
      "t", "?", "x", "=", "1">>

uHostOnly ==
    <<"h", "t", "t", "p", "s", ":", "/", "/", "h">>

uTab ==
    <<"/", "d", "/", "a", "b", "c", "1", "2", "3", "d", "e", "f", "4", "5",
      "6", "/", "a", "\t", "b">>

uSlash ==
    <<"/", "d", "/", "c", "/", "a", "%", "2", "F", "b">>

uOpaque ==
    <<"m", "a", "i", "l", "t", "o", ":", "a", "/", "b">>

uNoScheme ==
    <<":", "x">>

uColon ==
    <<"a", "/", "b", ":", "c">>

uColonFirst ==
    <<"1", "a", ":", "b", "/", "c">>

uBadHost ==
    <<"h", "t", "t", "p", "s", ":", "/", "/", "h", " ", "h", "/", "x">>

uBadPort ==
    <<"h", "t", "t", "p", "s", ":", "/", "/", "h", ":", "8", "x", "/", "a">>

uUser ==
    <<"h", "t", "t", "p", "s", ":", "/", "/", "u", ":", "p", "@", "h", ":",
      "8", "0", "/", "q", "/", "r", ".", "b", "i", "n">>

uBadUser ==
    <<"h", "t", "t", "p", "s", ":", "/", "/", "u", "^", "@", "h", "/", "q">>

uStar ==
    <<"*">>

uThree ==
    <<"/", "/", "/", "x", "/", "y", "/">>

uTwo ==
    <<"/", "/", "h", "/", "p", "/", "q">>

uBadFragment ==
    <<"/", "d", "/", "c", "/", "a", "#", "%", "z">>

uForce ==
    <<"/", "d", "/", "c", "/", "a", "?">>

uIPv6 ==
    <<"h", "t", "t", "p", ":", "/", "/", "[", "f", "e", "8", "0", ":", ":",
      "1", "%", "2", "5", "e", "n", "0", "]", ":", "8", "0", "8", "0", "/",
      "z">>

uNoBracket ==
    <<"h", "t", "t", "p", ":", "/", "/", "[", ":", ":", "1", "/", "z">>

uHostEscape ==
    <<"h", "t", "t", "p", ":", "/", "/", "a", "%", "4", "1", "/", "z">>

Urls ==
    {sEmpty, uBadEscape, uFragment, uQuery, uFull, uHostOnly,
     uTab, uSlash, uOpaque, uNoScheme, uColon,
     uColonFirst, uBadHost, uBadPort, uUser, uBadUser,
     uStar, uThree, uTwo, uBadFragment, uForce,
     uIPv6, uNoBracket, uHostEscape}

\* the root strings the Fs is created with
Roots == {sEmpty, sNine, sDocs, sCodeA, sCodeC, sFive9, sDocsX}

\* the remote names of the objects that are moved, updated or uploaded
SrcRemotes == {sCodeA, sCodeB, sATxt, sLstB}

\* the directories that are listed
sNeg5 == <<"-", "5">>

sENeg5Docs == <<"(", "-", "5", ")", " ", "d", "o", "c", "s">>

ListDirs ==
    {sEmpty, sDocs, sDocsCap, sPics, sE7Docs, sE7Docs \o <<"/">>,
     sDocs \o <<"/">> \o sReports, sE5Docs \o <<"/">> \o sReports,
     sE5Docs \o <<"/">> \o sReports \o <<"/">> \o sE5Docs,
     sNeg5, sENeg5Docs}

\* the directories and files that are moved, and where to
MoveSources ==
    [kind : {"dir"}, remote : {sEmpty, sDocs, sE5Docs, sE7Docs}]
    \cup [kind : {"file"}, remote : {sCodeA, sLstB}]

sDst == <<"d", "s", "t">>

MoveDests == {sDst, sE9Rep}

\* the remote names of the objects that are looked up, opened and removed
sNoFile == <<"n", "o", "f", "i", "l", "e">>

ObjRemotes == {sCodeA, sATxt, sLstB, sNoFile}

\* the directories that are created
MkdirDirs ==
    {sEmpty, sPics, sDocs \o <<"/">> \o sPics, sE5Docs \o <<"/">> \o sPics,
     sPics \o <<"/">> \o sDocs, <<"/">> \o sPics}

\* the callers invoke no further operation once the remote holds this many
\* folders
MaxFolders == 7

\* the commands and their arguments
CommandNames == {"delete", "purge"}

CommandArgs ==
    {<<>>} \cup {<<a>> : a \in ObjRemotes}
    \cup {<<a, b>> : a \in {sLstB, sNoFile}, b \in {sLstB, sCodeA}}

\* the names of the folders and files the remote lists
ListedNames ==
    {sDocs, sPics, sATxt, sMyDocs, sSpDocs, sDocsSp, sTabDocs, sADocs}

\* the identifiers of the folders the remote lists
ListedIds == {0, 3, 42, 368791}

\* the contents that are uploaded
PutContents == {"empty", "b10", "b1024", "b2049"}

\* the names ComputeMD5 is given
FileNames == {sATxt, sBBin}

\* the remote at the start: root holds Docs (6), docs (5) and a second
\* docs (7), listed in this order; docs (5) holds reports (9); the second
\* docs (7) holds Pics (3); Docs (6) and
\* the second docs (7) hold one file each, and root holds two files; every
\* file is listed with the hash of its content and folder
Folder(id, name, parent) == [id |-> id, name |-> name, parent |-> parent]

File(code, name, fld, data) ==
    [code |-> code, name |-> name, fld |-> fld, data |-> data,
     hash |-> ListedHash(data, fld)]

Remote0 ==
    [folders |-> <<Folder(6, sDocsCap, 0), Folder(5, sDocs, 0),
                   Folder(7, sDocs, 0), Folder(9, sReports, 5),
                   Folder(3, sPics, 7)>>,
     files   |-> <<File(sCodeA, sATxt, 7, "b10"),
                   File(sCodeB, sATxt, 6, "b1024"),
                   File(sCodeC, sBBin, 0, "b1024"),
                   File(sCodeD, sATxt, 0, "b10")>>]

----------------------------------------------------------------------------
(* The state machine.  One caller or two use the Fs, each one operation at *)
(* a time; a caller takes the result of its operation before it invokes    *)
(* the next.  An operation that talks to the remote takes one step per     *)
(* request: the step sends the request, the remote answers it from the     *)
(* state it is in, and the caller runs on to its next request or to its    *)
(* result.  The steps of two callers interleave freely.                    *)

Idle ==
    [name |-> "idle", dir |-> <<>>, script |-> NoFault, calls |-> <<>>,
     val |-> 0, err |-> ErrNil, src |-> <<>>, data |-> "empty",
     obj |-> FALSE, hash |-> <<>>, disk |-> <<>>, log |-> <<>>,
     entries |-> <<>>, dec |-> <<>>, code |-> <<>>,
     dest |-> <<>>, moves |-> <<>>, kind |-> "none",
     run |-> "none", args |-> <<>>, seen |-> <<>>, left |-> <<>>]

\* the local files that MoveToLocal made, by their paths: the bytes of the
\* file and, for each caller that opened it, where its handle stands
NoFiles == <<>>

\* the caller has the Fs to itself
Alone == DOMAIN ops = {1}

\* the inputs that are tried: all of them for a caller that has the Fs to
\* itself, a few when two callers interleave
In(all, few) == IF Alone THEN all ELSE few

\* the roots of the Fs two interleaving callers share
FewRoots == {sEmpty, sNine, sCodeA}

Init ==
    /\ ops \in {[c \in {1} |-> Idle], [c \in {1, 2} |-> Idle]}
    /\ f \in {NewFs(r) : r \in In(Roots, FewRoots)}
    /\ remote = Remote0
    /\ local = NoFiles

\* the inputs a step of the operation `run` of caller c can go on with:
\* those of the operation it is in the middle of, or any of `new` when
\* the caller is about to invoke one (it is in the state `from`)
Inputs(c, run, from, new) ==
    IF ops[c].name = "busy"
    THEN IF ops[c].run = run THEN {ops[c].args} ELSE {}
    ELSE IF ops[c].name = from THEN new ELSE {}

\* the states in which the remote took the requests of the operation caller
\* c is in, the one this step sends included
Seen(c) ==
    IF ops[c].name = "busy" THEN Append(ops[c].seen, remote) ELSE <<remote>>

\* the script of the run of caller c in this step
Run(c, script) == Timed(script, Seen(c))

\* a request that changed the remote
Mutates(call) ==
    /\ call.out = "ok"
    /\ call.api \in {"folder/create", "folder/delete", "upload",
                     "file/set_folder", "file/remove"}

\* One step of the operation `run` of caller c on the inputs a.  `done` is
\* what the run with the requests served so far comes to, rem the remote
\* it leaves.  When the run has sent no request beyond them, the operation
\* has returned and `done` is its result, kept with the states in which
\* the remote took its requests (seen) and those in which the requests
\* left it (left); else the caller waits for the remote to take its next
\* request.  The remote changes by the request this step sent.
Serve(c, run, a, done, rem) ==
    LET seen == Seen(c)
        k    == Len(seen)
        n    == Len(done.calls)
        next == IF n >= k /\ Mutates(done.calls[k]) THEN rem ELSE remote
        left == IF ops[c].name = "busy" THEN Append(ops[c].left, next)
                ELSE <<next>>
    IN  /\ ops' = [ops EXCEPT ![c] =
                     IF n <= k
                     THEN [done EXCEPT !.seen = SubSeq(seen, 1, n),
                                       !.left = SubSeq(left, 1, n)]
                     ELSE [Idle EXCEPT !.name = "busy", !.run = run,
                                       !.args = a, !.seen = seen,
                                       !.left = left]]
        /\ remote' = next

\* the remote as the finished operation o found it at its first request
Before(o) == IF o.seen = <<>> THEN remote ELSE o.seen[1]

\* the remote as the last request of the finished operation o left it
After(o) == IF o.left = <<>> THEN remote ELSE o.left[Len(o.left)]

\* the paths, directories and objects two interleaving callers are given
sX == <<"x">>

sLstC == <<"(">> \o sCodeC \o <<")", " ">> \o sBBin

FewPaths == {sDocs \o <<"/">> \o sReports}

FewDirs == {sEmpty, sDocs \o <<"/">> \o sReports}

FewMkdirDirs ==
    {sEmpty, sPics, sDocs \o <<"/">> \o sPics, sPics \o <<"/">> \o sDocs,
     sDocs \o <<"/">> \o sReports \o <<"/">> \o sX}

FewSrcRemotes == {sCodeC, sATxt}

FewObjRemotes == {sLstC}

FewContents == {"b10", "b1024", "b2049"}

OpResolveFolderPath(c) ==
    /\ \E a \in Inputs(c, "resolveFolderPath", "idle",
                       In([dir : Paths, script : Scripts(MaxSegs)],
                          [dir : FewPaths, script : {NoFault}])) :
         \E r \in {resolveFolderPath(remote, Run(c, a.script), a.dir,
                                     <<>>)} :
         Serve(c, "resolveFolderPath", a,
               [Idle EXCEPT !.name = "resolveFolderPath", !.dir = a.dir,
                            !.script = a.script, !.calls = r.calls,
                            !.val = r.val, !.err = r.err],
               remote)
    /\ UNCHANGED <<f, local>>

OpGetFolderID(c) ==
    /\ \E a \in Inputs(c, "getFolderID", "idle",
                       In([dir : Paths, script : Scripts(MaxSegs)],
                          [dir : FewPaths, script : {NoFault}])) :
         \E r \in {getFolderID(f, remote, Run(c, a.script), a.dir, <<>>)} :
         Serve(c, "getFolderID", a,
               [Idle EXCEPT !.name = "getFolderID", !.dir = a.dir,
                            !.script = a.script, !.calls = r.calls,
                            !.val = r.val, !.err = r.err],
               remote)
    /\ UNCHANGED <<f, local>>

OpRmdir(c) ==
    /\ \E a \in Inputs(c, "Rmdir", "idle",
                       In([dir : Paths, script : Scripts(MaxSegs + 3)],
                          [dir : FewPaths, script : {NoFault}])) :
         \E r \in {Rmdir(f, remote, Run(c, a.script), a.dir)} :
         Serve(c, "Rmdir", a,
               [Idle EXCEPT !.name = "Rmdir", !.dir = a.dir,
                            !.script = a.script, !.calls = r.calls,
                            !.err = r.err],
               r.remote)
    /\ UNCHANGED <<f, local>>

\* the result of an upload or move operation, as the caller and an observer
\* of the remote and of the local disk see it
Done(name, script, src, data, r) ==
    [Idle EXCEPT !.name = name, !.script = script, !.src = src,
                 !.data = data, !.calls = r.st.calls, !.err = r.err,
                 !.obj = r.obj, !.disk = r.st.disk, !.log = r.st.log]

OpPut(c) ==
    /\ \E a \in Inputs(c, "Put", "idle",
                       In([src : SrcRemotes, data : PutContents,
                           script : Scripts(MaxCalls)],
                          [src : FewSrcRemotes, data : FewContents,
                           script : {NoFault}])) :
         \E r \in {Put(f, St0(remote), Run(c, a.script), Reader(a.data),
                       a.src)} :
         Serve(c, "Put", a, Done("Put", a.script, a.src, a.data, r),
               r.st.remote)
    /\ UNCHANGED <<f, local>>

OpMoveTo(c) ==
    /\ \E a \in Inputs(c, "MoveTo", "idle",
                       In([src : SrcRemotes, script : Scripts(MaxCalls)],
                          [src : FewSrcRemotes, script : {NoFault}])) :
         \E r \in {MoveTo(f, St0(remote), Run(c, a.script), a.src)} :
         Serve(c, "MoveTo", a, Done("MoveTo", a.script, a.src, "empty", r),
               r.st.remote)
    /\ UNCHANGED <<f, local>>

OpMoveSingleFile(c) ==
    /\ \E a \in Inputs(c, "moveSingleFile", "idle",
                       In([src : SrcRemotes, script : Scripts(MaxCalls)],
                          [src : FewSrcRemotes, script : {NoFault}])) :
         \E r \in {moveSingleFile(f, St0(remote), Run(c, a.script),
                                  a.src)} :
         Serve(c, "moveSingleFile", a,
               Done("moveSingleFile", a.script, a.src, "empty", r),
               r.st.remote)
    /\ UNCHANGED <<f, local>>

OpUpdate(c) ==
    /\ \E a \in Inputs(c, "Update", "idle",
                       In([src : SrcRemotes, data : PutContents,
                           script : Scripts(MaxCalls)],
                          [src : FewSrcRemotes, data : FewContents,
                           script : {NoFault}])) :
         \E r \in {ObjectUpdate(f, St0(remote), Run(c, a.script), a.src,
                                Reader(a.data))} :
         Serve(c, "Update", a,
               Done("Update", a.script, a.src, a.data,
                    [obj |-> r.err = ErrNil, err |-> r.err, st |-> r.st]),
               r.st.remote)
    /\ UNCHANGED <<f, local>>

OpComputeMD5(c) ==
    /\ \E a \in Inputs(c, "ComputeMD5", "idle",
                       [src : FileNames, data : ContentKeys]) :
         \E r \in {ComputeMD5([n \in {a.src} |-> a.data], a.src)} :
         Serve(c, "ComputeMD5", a,
               [Idle EXCEPT !.name = "ComputeMD5", !.src = a.src,
                            !.data = a.data, !.hash = r.hash,
                            !.err = r.err],
               remote)
    /\ UNCHANGED <<f, local>>

OpList(c) ==
    /\ \E a \in Inputs(c, "List", "idle",
                       In([dir : ListDirs, script : Scripts(MaxSegs + 1)],
                          [dir : FewDirs, script : {NoFault}])) :
         \E r \in {List(f, St0(remote), Run(c, a.script), a.dir)} :
         Serve(c, "List", a,
               [Idle EXCEPT !.name = "List", !.dir = a.dir,
                            !.script = a.script, !.calls = r.st.calls,
                            !.err = r.err, !.entries = r.entries],
               remote)
    /\ UNCHANGED <<f, local>>

OpMove(c) ==
    /\ \E a \in Inputs(c, "Move", "idle",
                       In([src : MoveSources, dest : MoveDests,
                           script : Scripts(MaxCalls)],
                          [src : {[kind |-> "dir", remote |-> sEmpty]},
                           dest : {sDst}, script : {NoFault}])) :
         \E r \in {Move(f, St0(remote), Run(c, a.script), a.src, a.dest)} :
         Serve(c, "Move", a,
               [Done("Move", a.script, a.src.remote, "empty", r) EXCEPT
                  !.dir = IF a.src.kind = "dir" THEN a.src.remote ELSE <<>>,
                  !.kind = a.src.kind, !.dest = a.dest, !.moves = r.moves],
               r.st.remote)
    /\ UNCHANGED <<f, local>>

OpNewObject(c) ==
    /\ \E a \in Inputs(c, "NewObject", "idle",
                       In([src : ObjRemotes, script : Scripts(1)],
                          [src : FewObjRemotes, script : {NoFault}])) :
         \E r \in {NewObject(f, St0(remote), Run(c, a.script), a.src)} :
         Serve(c, "NewObject", a,
               [Idle EXCEPT !.name = "NewObject", !.src = a.src,
                            !.script = a.script, !.calls = r.st.calls,
                            !.err = r.err, !.obj = r.obj,
                            !.entries = IF r.obj
                                        THEN <<[kind |-> "file",
                                                remote |-> r.remote,
                                                size |-> r.size]>>
                                        ELSE <<>>],
               remote)
    /\ UNCHANGED <<f, local>>

OpOpen(c) ==
    /\ \E a \in Inputs(c, "Open", "idle",
                       In([src : ObjRemotes, script : Scripts(2)],
                          [src : FewObjRemotes \cup {sCodeC},
                           script : {NoFault}])) :
         \E r \in {ObjectOpen(f, St0(remote), Run(c, a.script), a.src)} :
         Serve(c, "Open", a,
               [Idle EXCEPT !.name = "Open", !.src = a.src,
                            !.script = a.script, !.calls = r.st.calls,
                            !.err = r.err, !.data = r.reader.data],
               remote)
    /\ UNCHANGED <<f, local>>

OpObjectRemove(c) ==
    /\ \E a \in Inputs(c, "Remove", "idle",
                       In([src : ObjRemotes, script : Scripts(1)],
                          [src : FewObjRemotes, script : {NoFault}])) :
         \E r \in {ObjectRemove(f, St0(remote), Run(c, a.script), a.src)} :
         Serve(c, "Remove", a,
               [Idle EXCEPT !.name = "Remove", !.src = a.src,
                            !.script = a.script, !.calls = r.st.calls,
                            !.err = r.err],
               r.st.remote)
    /\ UNCHANGED <<f, local>>

OpMkdir(c) ==
    /\ \E a \in Inputs(c, "Mkdir", "idle",
                       In([dir : MkdirDirs, script : Scripts(MaxSegs + 1)],
                          [dir : FewMkdirDirs, script : {NoFault}])) :
         \E r \in {Mkdir(f, St0(remote), Run(c, a.script), a.dir)} :
         Serve(c, "Mkdir", a,
               [Idle EXCEPT !.name = "Mkdir", !.dir = a.dir,
                            !.script = a.script, !.calls = r.st.calls,
                            !.err = r.err],
               r.st.remote)
    /\ UNCHANGED <<f, local>>

OpFsRemove(c) ==
    /\ \E a \in Inputs(c, "Fs.Remove", "idle",
                       In([dir : ListDirs, script : Scripts(MaxSegs + 1)],
                          [dir : FewDirs, script : {NoFault}])) :
         \E r \in {FsRemove(f, St0(remote), Run(c, a.script), a.dir)} :
         Serve(c, "Fs.Remove", a,
               [Idle EXCEPT !.name = "Fs.Remove", !.dir = a.dir,
                            !.script = a.script, !.calls = r.st.calls,
                            !.err = r.err],
               r.st.remote)
    /\ UNCHANGED <<f, local>>

OpCommand(c) ==
    /\ \E a \in Inputs(c, "Command", "idle",
                       In([name : CommandNames, args : CommandArgs,
                           script : Scripts(2)],
                          [name : {"delete"}, args : {<<sLstC>>},
                           script : {NoFault}])) :
         \E r \in {Command(f, St0(remote), Run(c, a.script), a.name,
                           a.args)} :
         Serve(c, "Command", a,
               [Idle EXCEPT !.name = "Command", !.kind = a.name,
                            !.entries = a.args, !.script = a.script,
                            !.calls = r.st.calls, !.err = r.err],
               r.st.remote)
    /\ UNCHANGED <<f, local>>

\* the entries of the kind `kind` among those the List o returned
listed(o, kind) ==
    {i \in 1..Len(o.entries) :
        o.name = "List" /\ o.err = ErrNil /\ o.entries[i].kind = kind}

\* the files behind the file entries of the List o, in the order of the
\* entries: the files the remote listed in its answer
listedFiles(fs, o) ==
    IF isFileCode(fs.root) THEN <<FileOf(o.seen[Len(o.seen)], fs.root)>>
    ELSE FilesIn(o.seen[Len(o.seen)], o.calls[Len(o.calls)].fld)

\* the file behind the i-th entry of the List o
listedFile(fs, o, i) ==
    listedFiles(fs, o)[i - Len(o.entries) + Len(listedFiles(fs, o))]

\* the folders behind the directory entries of the List o, in the order of
\* the entries
listedFolders(o) ==
    FoldersIn(o.seen[Len(o.seen)], o.calls[Len(o.calls)].fld)

\* the caller has listed a directory and removes one of the files listed
OpRemoveListed(c) ==
    /\ \E a \in Inputs(c, "RemoveListed", "List",
                       {[dir |-> ops[c].dir, src |-> ops[c].entries[i].remote,
                         code |-> listedFile(f, ops[c], i).code,
                         script |-> s] :
                          i \in listed(ops[c], "file"),
                          s \in In(Scripts(1), {NoFault})}) :
         \E r \in {ObjectRemove(f, St0(remote), Run(c, a.script), a.src)} :
         Serve(c, "RemoveListed", a,
               [Idle EXCEPT !.name = "RemoveListed", !.dir = a.dir,
                            !.script = a.script, !.src = a.src,
                            !.code = a.code, !.calls = r.st.calls,
                            !.err = r.err],
               r.st.remote)
    /\ UNCHANGED <<f, local>>

\* the caller has listed a directory and lists one of the directories listed
OpListListed(c) ==
    /\ \E a \in Inputs(c, "ListListed", "List",
                       {[src |-> ops[c].dir, dir |-> ops[c].entries[i].remote,
                         val |-> listedFolders(ops[c])[i].id,
                         script |-> s] :
                          i \in listed(ops[c], "dir"),
                          s \in In(Scripts(MaxSegs + 1), {NoFault})}) :
         \E r \in {List(f, St0(remote), Run(c, a.script), a.dir)} :
         Serve(c, "ListListed", a,
               [Idle EXCEPT !.name = "ListListed", !.src = a.src,
                            !.dir = a.dir, !.script = a.script,
                            !.val = a.val, !.calls = r.st.calls,
                            !.err = r.err, !.entries = r.entries],
               remote)
    /\ UNCHANGED <<f, local>>

\* the caller has listed a directory and opens one of the files listed
OpOpenListed(c) ==
    /\ \E a \in Inputs(c, "OpenListed", "List",
                       {[dir |-> ops[c].dir, src |-> ops[c].entries[i].remote,
                         code |-> listedFile(f, ops[c], i).code,
                         script |-> s] :
                          i \in listed(ops[c], "file"),
                          s \in In(Scripts(2), {NoFault})}) :
         \E r \in {ObjectOpen(f, St0(remote), Run(c, a.script), a.src)} :
         Serve(c, "OpenListed", a,
               [Idle EXCEPT !.name = "OpenListed", !.dir = a.dir,
                            !.script = a.script, !.src = a.src,
                            !.code = a.code, !.calls = r.st.calls,
                            !.err = r.err, !.data = r.reader.data],
               remote)
    /\ UNCHANGED <<f, local>>

\* the caller has listed a directory and deletes one of the directories
\* listed, with Rmdir or with Fs.Remove
OpDeleteListed(c) ==
    /\ \E a \in Inputs(c, "DeleteListed", "List",
                       {[dir |-> ops[c].entries[i].remote,
                         val |-> listedFolders(ops[c])[i].id,
                         how |-> h, script |-> s] :
                          i \in listed(ops[c], "dir"),
                          h \in {"Rmdir", "Fs.Remove"},
                          s \in In(Scripts(1), {NoFault})}) :
         \E r \in {IF a.how = "Rmdir"
                   THEN Rmdir(f, remote, Run(c, a.script), a.dir)
                   ELSE LET x == FsRemove(f, St0(remote), Run(c, a.script),
                                          a.dir)
                        IN  [err |-> x.err, calls |-> x.st.calls,
                             remote |-> x.st.remote]} :
         Serve(c, "DeleteListed", a,
               [Idle EXCEPT !.name = "DeleteListed", !.kind = a.how,
                            !.dir = a.dir, !.script = a.script,
                            !.val = a.val, !.calls = r.calls,
                            !.err = r.err],
               r.remote)
    /\ UNCHANGED <<f, local>>

\* listDirectory names a folder and resolveFolderPath decodes the name
OpFolderSegment(c) ==
    /\ \E a \in Inputs(c, "folderSegment", "idle",
                       [val : ListedIds, src : ListedNames]) :
         \E seg \in {nameWithID(a.val, a.src)} :
         Serve(c, "folderSegment", a,
               [Idle EXCEPT !.name = "folderSegment", !.val = a.val,
                            !.src = a.src, !.dir = seg,
                            !.dec = decodePath(seg)],
               remote)
    /\ UNCHANGED <<f, local>>

\* listDirectory names a file and Object.Remove takes the code from the name
OpFileSegment(c) ==
    /\ \E a \in Inputs(c, "fileSegment", "idle",
                       [code : FileCodes(remote) \cup {sCodeNew},
                        src : ListedNames]) :
         \E seg \in {nameWithCode(a.code, a.src)} :
         Serve(c, "fileSegment", a,
               [Idle EXCEPT !.name = "fileSegment", !.src = a.src,
                            !.hash = a.code, !.dir = seg,
                            !.code = removeFileCode(f, seg)],
               remote)
    /\ UNCHANGED <<f, local>>

\* uploadFile of filelu.go, with the session the upload server issued; the
\* operation returns to its caller or ends in a panic
OpUploadFile(c) ==
    /\ \E a \in Inputs(c, "uploadFile", "idle",
                       In([src : SrcRemotes, data : PutContents,
                           script : Scripts(1), empty : BOOLEAN],
                          [src : {sATxt}, data : FewContents,
                           script : {NoFault}, empty : {FALSE}])) :
         \E r \in {uploadFileDirect(St0(remote), Run(c, a.script),
                                    Session(1).url, Session(1).sessID,
                                    a.src, Reader(a.data), a.empty)} :
         Serve(c, "uploadFile", a,
               [Idle EXCEPT !.name = "uploadFile", !.src = a.src,
                            !.data = a.data, !.script = a.script,
                            !.calls = r.st.calls, !.err = r.err,
                            !.code = r.fileCode,
                            !.kind = IF r.panic THEN "panic"
                                     ELSE "returned"],
               r.st.remote)
    /\ UNCHANGED <<f, local>>

\* the local paths MoveToLocal and DeleteLocalFile are given
sOut == <<"o", "u", "t">>

LocalPaths == {sEmpty, sOut}

\* the faults of the MoveToLocal of two interleaving callers: none, or the
\* connection breaks while the second chunk of the body arrives (the steps
\* before it: two direct links, the download, os.Create, the first chunk)
FewBodyScripts == {NoFault, [at |-> 6, how |-> "transport"]}

\* how many bytes a chunk of the body holds
Gots == {1, 10}

\* Fs.MoveToLocal.  The local file is made in a step of its own after the
\* download was answered; io.Copy then writes it chunk by chunk, one chunk
\* for each read of the body.  The steps of another caller come between
\* the answer and os.Create, between os.Create and the first chunk and
\* between two chunks.  The file is removed from the remote after the last
\* chunk.
OpMoveToLocal(c) ==
    /\ \E a \in Inputs(c, "MoveToLocal", "idle",
                       In([src : ObjRemotes, path : LocalPaths,
                           script : Scripts(MaxChunks + 5), got : Gots],
                          [src : FewObjRemotes, path : {sOut},
                           script : FewBodyScripts, got : {1}])) :
         \E r \in {MoveToLocal(f, St0(remote), Run(c, a.script), a.src,
                               a.path, a.got)} :
         \E k \in {Len(Seen(c))} :
         \E wrote \in {CASE r.created = k -> Create(local, a.path, c)
                         [] r.created > 0 /\ r.created < k
                            /\ k <= r.created + r.written ->
                                 Write(local, c, r.chunks[k - r.created])
                         [] OTHER -> local} :
         /\ Serve(c, "MoveToLocal", a,
                  [Idle EXCEPT !.name = "MoveToLocal", !.src = a.src,
                               !.dest = a.path, !.script = a.script,
                               !.calls = r.st.calls, !.err = r.err,
                               !.val = a.got],
                  r.st.remote)
         /\ local' = wrote
    /\ UNCHANGED f

\* DeleteLocalFile
OpDeleteLocalFile(c) ==
    /\ \E a \in Inputs(c, "DeleteLocalFile", "idle", [path : LocalPaths]) :
         \E r \in {DeleteLocalFile(local, a.path)} :
         /\ Serve(c, "DeleteLocalFile", a,
                  [Idle EXCEPT !.name = "DeleteLocalFile", !.dest = a.path,
                               !.err = r.err],
                  remote)
         /\ local' = r.local
    /\ UNCHANGED f

\* extractFileName of a URL
OpExtractFileName(c) ==
    /\ \E a \in Inputs(c, "extractFileName", "idle", [src : Urls]) :
         Serve(c, "extractFileName", a,
               [Idle EXCEPT !.name = "extractFileName", !.src = a.src,
                            !.dir = extractFileName(a.src)],
               remote)
    /\ UNCHANGED <<f, local>>

\* the caller has the result; the Fs is ready for its next operation.  The
\* runs are kept finite by the callers, not by an operation: every
\* operation that was invoked runs to its end, and no caller comes back for
\* another one once the remote holds MaxFolders folders
Return(c) ==
    /\ ops[c].name \notin {"idle", "busy"}
    /\ Len(remote.folders) < MaxFolders
    /\ ops' = [ops EXCEPT ![c] = Idle]
    /\ UNCHANGED <<f, remote, local>>

Next ==
    \/ \E c \in DOMAIN ops : OpResolveFolderPath(c)
    \/ \E c \in DOMAIN ops : OpGetFolderID(c)
    \/ \E c \in DOMAIN ops : OpRmdir(c)
    \/ \E c \in DOMAIN ops : OpPut(c)
    \/ \E c \in DOMAIN ops : OpMoveTo(c)
    \/ \E c \in DOMAIN ops : OpMoveSingleFile(c)
    \/ \E c \in DOMAIN ops : OpUpdate(c)
    \/ \E c \in DOMAIN ops : OpComputeMD5(c)
    \/ \E c \in DOMAIN ops : OpList(c)
    \/ \E c \in DOMAIN ops : OpRemoveListed(c)
    \/ \E c \in DOMAIN ops : OpMove(c)
    \/ \E c \in DOMAIN ops : OpNewObject(c)
    \/ \E c \in DOMAIN ops : OpOpen(c)
    \/ \E c \in DOMAIN ops : OpObjectRemove(c)
    \/ \E c \in DOMAIN ops : OpMkdir(c)
    \/ \E c \in DOMAIN ops : OpFsRemove(c)
    \/ \E c \in DOMAIN ops : OpCommand(c)
    \/ \E c \in DOMAIN ops : OpDeleteListed(c)
    \/ \E c \in DOMAIN ops : OpOpenListed(c)
    \/ \E c \in DOMAIN ops : OpListListed(c)
    \/ \E c \in DOMAIN ops : OpUploadFile(c)
    \/ \E c \in DOMAIN ops : OpMoveToLocal(c)
    \/ \E c \in DOMAIN ops : OpDeleteLocalFile(c)
    \/ \E c \in DOMAIN ops : OpExtractFileName(c)
    \/ \E c \in DOMAIN ops : OpFolderSegment(c)
    \/ \E c \in DOMAIN ops : OpFileSegment(c)
    \/ \E c \in DOMAIN ops : Return(c)

Spec == Init /\ [][Next]_vars

\* the path and folder operations alone
NextResolve ==
    \/ \E c \in DOMAIN ops : OpResolveFolderPath(c)
    \/ \E c \in DOMAIN ops : OpGetFolderID(c)
    \/ \E c \in DOMAIN ops : OpRmdir(c)
    \/ \E c \in DOMAIN ops : Return(c)

SpecResolve == Init /\ [][NextResolve]_vars

\* the upload and move operations, and the removal of an object
NextUpload ==
    \/ \E c \in DOMAIN ops : OpPut(c)
    \/ \E c \in DOMAIN ops : OpMoveTo(c)
    \/ \E c \in DOMAIN ops : OpMoveSingleFile(c)
    \/ \E c \in DOMAIN ops : OpUpdate(c)
    \/ \E c \in DOMAIN ops : OpObjectRemove(c)
    \/ \E c \in DOMAIN ops : Return(c)

SpecUpload == Init /\ [][NextUpload]_vars

\* the fingerprint alone
NextMD5 ==
    \/ \E c \in DOMAIN ops : OpComputeMD5(c)
    \/ \E c \in DOMAIN ops : Return(c)

SpecMD5 == Init /\ [][NextMD5]_vars

\* uploadFile on the answers of the remote alone
NextAnswer ==
    \/ \E c \in DOMAIN ops : OpUploadFile(c)
    \/ \E c \in DOMAIN ops : Return(c)

SpecAnswer == Init /\ [][NextAnswer]_vars

\* updates alone
NextUploads ==
    \/ \E c \in DOMAIN ops : OpUpdate(c)
    \/ \E c \in DOMAIN ops : Return(c)

SpecUploads == Init /\ [][NextUploads]_vars

\* the listing and the objects alone
NextList ==
    \/ \E c \in DOMAIN ops : OpList(c)
    \/ \E c \in DOMAIN ops : OpRemoveListed(c)
    \/ \E c \in DOMAIN ops : OpDeleteListed(c)
    \/ \E c \in DOMAIN ops : OpOpenListed(c)
    \/ \E c \in DOMAIN ops : OpListListed(c)
    \/ \E c \in DOMAIN ops : OpMove(c)
    \/ \E c \in DOMAIN ops : OpNewObject(c)
    \/ \E c \in DOMAIN ops : OpOpen(c)
    \/ \E c \in DOMAIN ops : OpObjectRemove(c)
    \/ \E c \in DOMAIN ops : OpCommand(c)
    \/ \E c \in DOMAIN ops : Return(c)

SpecList == Init /\ [][NextList]_vars

\* every operation without a Return: a caller's first operation, and what
\* it does with a listing
NextFirst ==
    \/ \E c \in DOMAIN ops : OpResolveFolderPath(c)
    \/ \E c \in DOMAIN ops : OpGetFolderID(c)
    \/ \E c \in DOMAIN ops : OpRmdir(c)
    \/ \E c \in DOMAIN ops : OpPut(c)
    \/ \E c \in DOMAIN ops : OpMoveTo(c)
    \/ \E c \in DOMAIN ops : OpMoveSingleFile(c)
    \/ \E c \in DOMAIN ops : OpUpdate(c)
    \/ \E c \in DOMAIN ops : OpList(c)
    \/ \E c \in DOMAIN ops : OpRemoveListed(c)
    \/ \E c \in DOMAIN ops : OpMove(c)
    \/ \E c \in DOMAIN ops : OpNewObject(c)
    \/ \E c \in DOMAIN ops : OpOpen(c)
    \/ \E c \in DOMAIN ops : OpObjectRemove(c)
    \/ \E c \in DOMAIN ops : OpMkdir(c)
    \/ \E c \in DOMAIN ops : OpFsRemove(c)
    \/ \E c \in DOMAIN ops : OpCommand(c)
    \/ \E c \in DOMAIN ops : OpMoveToLocal(c)
    \/ \E c \in DOMAIN ops : OpDeleteLocalFile(c)

SpecFirst == Init /\ [][NextFirst]_vars

\* the naming of the listed entries alone
NextCodec ==
    \/ \E c \in DOMAIN ops : OpFolderSegment(c)
    \/ \E c \in DOMAIN ops : OpFileSegment(c)
    \/ \E c \in DOMAIN ops : OpExtractFileName(c)
    \/ \E c \in DOMAIN ops : Return(c)

SpecCodec == Init /\ [][NextCodec]_vars

\* the path and folder operations of two callers, one of whom creates
\* folders
NextRace ==
    \/ \E c \in DOMAIN ops : OpResolveFolderPath(c)
    \/ \E c \in DOMAIN ops : OpGetFolderID(c)
    \/ \E c \in DOMAIN ops : OpRmdir(c)
    \/ \E c \in DOMAIN ops : OpMkdir(c)
    \/ \E c \in DOMAIN ops : Return(c)

\* the operations on the local files, and the removal of an object
NextLocal ==
    \/ \E c \in DOMAIN ops : OpMoveToLocal(c)
    \/ \E c \in DOMAIN ops : OpDeleteLocalFile(c)
    \/ \E c \in DOMAIN ops : OpObjectRemove(c)
    \/ \E c \in DOMAIN ops : Return(c)

SpecLocal == Init /\ [][NextLocal]_vars

\* two callers from the start
InitRace == Init /\ ~Alone

SpecRace == InitRace /\ [][NextRace]_vars

----------------------------------------------------------------------------
(* Path resolution: the claims.                                            *)

\* the segment carries an identifier in the "(id) name" template: a decimal
\* FolderID between a leading "(" and the first ")"
TemplateId(seg) ==
    /\ HasPrefix(seg, <<"(">>)
    /\ Index(seg, ")") > 1
    /\ \A i \in 2..Index(seg, ")") : seg[i] \in Digit

NonEmptySegs(path) == SelectSeq(Split(path, "/"), LAMBDA g : g # <<>>)

AllEmbedded(path) ==
    \A i \in 1..Len(NonEmptySegs(path)) : TemplateId(NonEmptySegs(path)[i])

NoneEmbedded(path) ==
    \A i \in 1..Len(NonEmptySegs(path)) : ~TemplateId(NonEmptySegs(path)[i])

ListingNames(call) == {call.res[i].name : i \in 1..Len(call.res)}

\* C8 as claimed: resolveFolderPath on a path whose non-empty segments all
\* carry an embedded identifier returns a FolderID without any remote call.
C8_EmbeddedIdsNeedNoCall ==
    (op.name = "resolveFolderPath" /\ AllEmbedded(op.dir))
        => (op.calls = <<>> /\ op.err = ErrNil)

\* C9 as claimed: on a path without embedded identifiers resolveFolderPath
\* issues exactly one listing call per (non-empty) segment.
C9_OneListingPerSegment ==
    (op.name = "resolveFolderPath" /\ NoneEmbedded(op.dir))
        => Len(op.calls) = Len(NonEmptySegs(op.dir))

\* C9 amended: on a path without embedded identifiers resolveFolderPath
\* issues one listing call per non-empty segment, in order, until a listing
\* fails or holds no folder named exactly as the segment; the first call
\* lists folder 0 and each later one the folder the walk advanced to, a
\* folder of the previous listing whose name equals the previous segment
\* exactly; a successful resolution has listed once per non-empty segment
\* and returns the folder matched last.  "docs/reports" with docs (5) in
\* root and reports (9) in docs yields 9 after exactly two listing calls.
C9_ListingPerSegmentUntilFailure ==
    (op.name = "resolveFolderPath" /\ NoneEmbedded(op.dir)) =>
        LET segs == NonEmptySegs(op.dir)
            n    == Len(op.calls)
            Hit(k, id) == \E i \in 1..Len(op.calls[k].res) :
                             /\ op.calls[k].res[i].name = segs[k]
                             /\ op.calls[k].res[i].id = id
        IN  /\ n <= Len(segs)
            /\ \A k \in 1..n : op.calls[k].api = "folder/list"
            /\ n >= 1 => op.calls[1].fld = 0
            /\ \A k \in 2..n : /\ op.calls[k - 1].out = "ok"
                               /\ Hit(k - 1, op.calls[k].fld)
            /\ op.err = ErrNil =>
                   /\ n = Len(segs)
                   /\ IF n = 0 THEN op.val = 0 ELSE Hit(n, op.val)
            /\ op.err # ErrNil =>
                   /\ n >= 1
                   /\ op.val = 0
                   /\ \/ op.calls[n].out # "ok"
                      \/ segs[n] \notin ListingNames(op.calls[n])
            /\ (op.dir = sDocs \o <<"/">> \o sReports /\ op.err = ErrNil)
                   => (op.val = 9 /\ n = 2)

\* C9's case: "docs/reports" resolved to 9 by two listing calls
C9_Witness ==
    /\ op.name = "resolveFolderPath"
    /\ op.dir = sDocs \o <<"/">> \o sReports
    /\ op.err = ErrNil
    /\ op.val = 9
    /\ Len(op.calls) = 2
    /\ op.calls[1].fld = 0 /\ op.calls[2].fld = 5

\* the segments an operation looks up by name, in order (getFolderID, and
\* Rmdir through it, looks up none when the whole path is a number)
LookedUp(o) ==
    LET full == IF o.name = "Rmdir"
                THEN Trim(IF f.root # <<>> THEN Join(f.root, o.dir)
                          ELSE o.dir, {"/"})
                ELSE o.dir
    IN  IF o.name = "resolveFolderPath"
        THEN SelectSeq(Split(o.dir, "/"),
                       LAMBDA g : g # <<>> /\ decodeSegment(g).folderID = 0)
        ELSE IF Atoi(full).ok THEN <<>> ELSE NonEmptySegs(full)

\* the k-th call of the operation listed the folder reached so far and the
\* listing holds no folder named as the segment looked up, a segment
\* without embedded identifier
Unmatched(o, k) ==
    /\ k <= Len(LookedUp(o))
    /\ o.calls[k].api = "folder/list"
    /\ o.calls[k].out = "ok"
    /\ ~TemplateId(LookedUp(o)[k])
    /\ LookedUp(o)[k] \notin ListingNames(o.calls[k])

\* C10: when a segment without embedded identifier equals no folder name of
\* the listing of the current folder, resolveFolderPath and getFolderID
\* return fs.ErrorDirNotFound with FolderID 0 and make no later call, and
\* Rmdir returns fs.ErrorDirNotFound to its caller.
C10_UnmatchedSegmentIsDirNotFound ==
    (op.name \in {"resolveFolderPath", "getFolderID", "Rmdir"}) =>
        \A k \in 1..Len(op.calls) :
            Unmatched(op, k) =>
                /\ k = Len(op.calls)
                /\ op.err = ErrorDirNotFound
                /\ op.val = 0

\* C10's case: Rmdir of a path whose second segment names no folder
C10_Witness ==
    /\ op.name = "Rmdir"
    /\ Len(op.calls) = 2
    /\ Unmatched(op, 2)
    /\ op.err = ErrorDirNotFound

----------------------------------------------------------------------------
(* The fingerprint: the claims.                                            *)

\* C7 as claimed: ComputeMD5 returns successfully with a digest of the one
\* fixed length for an empty file, a file shorter than the window, a file
\* of exactly the window size and a longer one, and the digest is the same
\* whatever name the file has.
C7_ComputeMD5Succeeds ==
    op.name = "ComputeMD5" =>
        /\ op.err = ErrNil
        /\ DigestLen(op.hash) = EncodedLen(md5Size)
        /\ \A name \in FileNames :
               ComputeMD5([n \in {name} |-> op.data], name).hash = op.hash

----------------------------------------------------------------------------
(* The upload and move pipeline: the claims.                               *)

\* the positions of the calls of one request in the trace of the operation
CallsTo(api) == {k \in 1..Len(op.calls) : op.calls[k].api = api}

OkCallsTo(api) == {k \in CallsTo(api) : op.calls[k].out = "ok"}

\* the folder Put uploads into
PutFolderID == IF Atoi(f.folderID).ok THEN Atoi(f.folderID).val ELSE 0

\* the remote held, in the folder Put uploads into, a file listed with the
\* DedupKey of the content that is being put, when the operation began
HoldsDedupKey ==
    \E i \in 1..Len(Before(op).files) :
        /\ Before(op).files[i].fld = PutFolderID
        /\ Before(op).files[i].hash = ListedHash(op.data, PutFolderID)

\* C1: in every trace of MoveTo and of moveSingleFile a file-remove request
\* for the source is sent only after every earlier call of the trace was
\* answered OK and one of them was the upload of the file; when opening the
\* source, acquiring the session, uploading or relocating fails, no
\* file-remove request is sent and every file the remote holds when it
\* takes a request of the operation it still holds after that request.
C1_RemoveOnlyAfterUpload ==
    op.name \in {"MoveTo", "moveSingleFile"} =>
        /\ \A k \in CallsTo("file/remove") :
               /\ \A j \in 1..(k - 1) : op.calls[j].out = "ok"
               /\ \E j \in 1..(k - 1) : op.calls[j].api = "upload"
               /\ k = Len(op.calls)
        /\ (op.err # ErrNil /\ CallsTo("file/remove") = {})
               => \A k \in 1..Len(op.calls) :
                      FileCodes(op.seen[k]) \subseteq FileCodes(op.left[k])
        /\ (\E k \in 1..Len(op.calls) :
                /\ op.calls[k].api # "file/remove"
                /\ op.calls[k].out # "ok")
               => CallsTo("file/remove") = {}
        /\ OkCallsTo("upload") = {} => CallsTo("file/remove") = {}

\* a move whose source was opened and whose session was acquired, and whose
\* upload then failed: the source was not removed
C1_Witness ==
    /\ op.name \in {"MoveTo", "moveSingleFile"}
    /\ OkCallsTo("download") # {}
    /\ OkCallsTo("upload/server") # {}
    /\ op.err # ErrNil
    /\ CallsTo("file/remove") = {}
    /\ op.src \in FileCodes(After(op))

\* C2 as claimed: in a run of Put the upload is sent only after a session
\* was acquired in the same run, to its URL and with its token; a
\* set-folder call is sent only after the upload answered OK, with the file
\* code of that upload; and when the remote answers every call OK the run
\* sends the session request, then the upload, then a set-folder call if
\* and only if the destination FolderID is not zero.
C2_PutCallOrder ==
    op.name = "Put" =>
        /\ \A k \in CallsTo("upload") :
               \E j \in OkCallsTo("upload/server") :
                   /\ j < k
                   /\ op.calls[k].res[1].url = op.calls[j].res[1].url
                   /\ op.calls[k].res[1].sessID = op.calls[j].res[1].sessID
        /\ \A k \in CallsTo("file/set_folder") :
               \E j \in OkCallsTo("upload") :
                   j < k /\ op.calls[k].code = op.calls[j].code
        /\ (/\ op.script = NoFault
            /\ OkCallsTo("upload/server") # {}) =>
               /\ \E j \in CallsTo("upload/server"), k \in CallsTo("upload") :
                      j < k
               /\ (PutFolderID # 0) <=> (CallsTo("file/set_folder") # {})

\* C3 as claimed: when the content is not a duplicate and the remote
\* answers every call OK, Put sends exactly one multipart upload request and
\* returns a non-nil object and no error.
C3_PutReachesDone ==
    (/\ op.name = "Put"
     /\ ~HoldsDedupKey
     /\ \A k \in 1..Len(op.calls) : op.calls[k].out = "ok"
     /\ op.script = NoFault) =>
        /\ Cardinality(CallsTo("upload")) = 1
        /\ op.obj
        /\ op.err = ErrNil

\* the run is one in which the remote is to accept the upload and to refuse
\* the relocation that follows it: the destination folder is not zero and
\* the fault is scripted into the call that is the set-folder call when
\* the calls before it are answered OK, the fifth of Put (listing, session,
\* listing, upload, set-folder) and the fourth of Update (session,
\* listing, upload, set-folder)
RelocationRefused ==
    \/ op.name = "Put" /\ PutFolderID # 0 /\ op.script.at = 5
    \/ /\ op.name = "Update"
       /\ Atoi(f.root).ok /\ Atoi(f.root).val # 0
       /\ op.script.at = 4

\* the types of the errors of a chain, outermost first: what a caller can
\* tell errors apart by
ErrKind(err) == [i \in 1..Len(err) |-> err[i].t]

\* the errors Put returns for the same input when nothing is uploaded: the
\* session request (the second call) or the upload (the fourth) is refused
\* or does not get through
TotalFailures ==
    {Put(f, St0(Before(op)), [at |-> k, how |-> h], Reader(op.data),
         op.src).err :
        k \in {2, 4}, h \in {"status", "transport"}}

\* C5 as claimed: the error Put returns when the upload succeeded and the
\* relocation failed is of another kind than every error it returns when
\* nothing was uploaded.
C5_PartialFailureDistinct ==
    (op.name = "Put" /\ RelocationRefused) =>
        \A e \in TotalFailures : ErrKind(op.err) # ErrKind(e)

\* C6 as claimed: a Put of content that the destination folder already
\* lists under its DedupKey is reported as a duplicate.
C6_SecondPutIsDuplicate ==
    (op.name = "Put" /\ op.script = NoFault /\ HoldsDedupKey) =>
        \E i \in 1..Len(op.err) : op.err[i].t = "*DuplicateFileError"

----------------------------------------------------------------------------
(* Claims about the naming of the listed entries.                          *)

Chars(s) == {s[i] : i \in 1..Len(s)}

\* a name the decoding hands back as it is
PlainName(name) ==
    /\ Chars(name) \cap {"(", ")", "/"} = {}
    /\ TrimSpace(name) = name

\* C11 as stated: for every folder name that holds neither "(" nor ")" and
\* every folder identifier, decoding the segment listDirectory builds, as
\* resolveFolderPath does, recovers exactly that identifier and name; and
\* the code Object.Remove extracts from the segment of a file is that
\* file's code.
C11_RoundTripWithoutParens ==
    /\ (op.name = "folderSegment" /\ Chars(op.src) \cap {"(", ")"} = {})
           => op.dec = <<[folderID |-> op.val, part |-> op.src]>>
    /\ (op.name = "fileSegment" /\ ~isFileCode(f.root))
           => op.code = op.hash

\* C11, amended: for every folder name that holds none of "(", ")" and "/"
\* and neither starts nor ends with a blank, and every folder identifier,
\* decoding the segment listDirectory builds recovers exactly that
\* identifier and name; and on an Fs whose root is no file code the code
\* Object.Remove extracts from the segment of a file is that file's code.
C11_RoundTripOfPlainNames ==
    /\ (op.name = "folderSegment" /\ PlainName(op.src))
           => op.dec = <<[folderID |-> op.val, part |-> op.src]>>
    /\ (op.name = "fileSegment" /\ ~isFileCode(f.root))
           => op.code = op.hash

C11_Witness ==
    /\ op.name = "folderSegment"
    /\ op.src = sMyDocs
    /\ op.val = 42
    /\ op.dir = <<"(", "4", "2", ")", " ">> \o sMyDocs
    /\ op.dec = <<[folderID |-> 42, part |-> sMyDocs]>>

----------------------------------------------------------------------------
(* Claims about List and the objects it returns.                           *)

\* C12: for every file entry List returns, for any directory argument (root
\* or nested, with or without embedded identifiers), Object.Remove on that
\* entry issues exactly one file-delete request, for the listed file code.
C12_RemoveOfListedFile ==
    op.name = "RemoveListed"
        => /\ Cardinality(CallsTo("file/remove")) = 1
           /\ \A k \in CallsTo("file/remove") : op.calls[k].code = op.code

\* what resolving the listed directory does, the remote taking its requests
\* in the states in which it took those of the operation
Resolved ==
    resolveFolderPath(Before(op), Timed(op.script, op.seen), op.dir, <<>>)

\* the remote as it took the last request of the operation
Shown == IF op.seen = <<>> THEN remote ELSE op.seen[Len(op.seen)]

\* a segment under the directory prefix
Under(dir, seg) ==
    IF dir = <<>> THEN seg ELSE TrimRight(dir, {"/"}) \o <<"/">> \o seg

\* one entry per folder and one per file of the folder with the identifier
\* id as the last request of the operation found it, named by the
\* "(id) name" template under the prefix dir, in the order of the remote
Templated(dir, id) ==
    [i \in 1..Len(FoldersIn(Shown, id)) |->
        [kind |-> "dir", size |-> 0,
         remote |-> Under(dir, <<"(">> \o Itoa(FoldersIn(Shown, id)[i].id)
                               \o <<")", " ">>
                               \o FoldersIn(Shown, id)[i].name)]]
    \o
    [i \in 1..Len(FilesIn(Shown, id)) |->
        [kind |-> "file", size |-> Len(Content(FilesIn(Shown, id)[i].data)),
         remote |-> Under(dir, <<"(">> \o FilesIn(Shown, id)[i].code
                               \o <<")", " ">>
                               \o FilesIn(Shown, id)[i].name)]]

\* C13 as stated: when the root is no file code, List(dir) issues exactly
\* one folder-listing call for the folder dir resolves to and returns one
\* entry per remote folder and one per remote file, each named by the
\* "(id) name" template joined onto dir, in the order of the remote.
C13_OneListingOfResolvedFolder ==
    (op.name = "List" /\ ~isFileCode(f.root) /\ Resolved.err = ErrNil)
        => /\ Cardinality({k \in CallsTo("folder/list") :
                               op.calls[k].fld = Resolved.val}) = 1
           /\ op.err = ErrNil => op.entries = Templated(op.dir, Resolved.val)

\* C13, amended: when the root is no file code and dir resolves, List(dir)
\* issues, after the calls that resolve dir, exactly one more call, a
\* folder listing of the folder dir resolves to; answered OK, List returns
\* one entry per remote folder and then one per remote file, each named by
\* the "(id) name" template joined onto dir, in the order of the remote.
C13_OneListingAfterResolution ==
    (op.name = "List" /\ ~isFileCode(f.root) /\ Resolved.err = ErrNil)
        => /\ Len(op.calls) = Len(Resolved.calls) + 1
           /\ SubSeq(op.calls, 1, Len(Resolved.calls)) = Resolved.calls
           /\ op.calls[Len(op.calls)].api = "folder/list"
           /\ op.calls[Len(op.calls)].fld = Resolved.val
           /\ IF op.calls[Len(op.calls)].out = "ok"
              THEN /\ op.err = ErrNil
                   /\ op.entries = Templated(op.dir, Resolved.val)
              ELSE op.err # ErrNil /\ op.entries = <<>>

\* subfolder "Pics" (id 3) and file "a.txt" (abc123def456) listed under the
\* directory "(7) docs"
C13_Witness ==
    /\ op.name = "List"
    /\ f.root = <<>>
    /\ op.dir = sE7Docs
    /\ op.err = ErrNil
    /\ Len(op.calls) = 1
    /\ op.entries =
         <<[kind |-> "dir", size |-> 0,
            remote |-> sE7Docs \o <<"/", "(", "3", ")", " ">> \o sPics],
           [kind |-> "file", size |-> 10,
            remote |-> sE7Docs \o <<"/", "(">> \o sCodeA \o <<")", " ">>
                       \o sATxt]>>

\* C14: when the root is a file code, List returns exactly one entry, got
\* by one direct-link lookup that supplies its size, and issues no
\* folder-listing call, whatever dir is.
C14_FileCodeRootListsOneEntry ==
    (op.name = "List" /\ isFileCode(f.root))
        => /\ CallsTo("folder/list") = {}
           /\ Len(op.calls) = 1
           /\ op.calls[1].api = "file/direct_link"
           /\ op.calls[1].code = f.root
           /\ IF op.calls[1].out = "ok"
              THEN /\ op.err = ErrNil
                   /\ Len(op.entries) = 1
                   /\ op.entries[1].kind = "file"
                   /\ op.entries[1].size =
                          Len(Content(FileOf(Shown, f.root).data))
              ELSE op.err # ErrNil /\ op.entries = <<>>

C14_Witness ==
    /\ op.name = "List"
    /\ f.root = sCodeA
    /\ op.dir = sDocs \o <<"/">> \o sReports
    /\ op.err = ErrNil
    /\ Len(op.calls) = 1
    /\ op.entries = <<[kind |-> "file", size |-> 10, remote |-> sATxt]>>

\* the path of p relative to the directory dir it lies below
RelTo(dir, p) == IF dir = <<>> THEN p ELSE SliceFrom(p, Len(dir) + 1)

\* C15: Move of a directory preserves the relative structure: every file at
\* the relative path r below the source directory is placed at the relative
\* path r below the destination.
C15_DirectoryMoveKeepsStructure ==
    (op.name = "Move" /\ op.kind = "dir" /\ op.script = NoFault)
        => /\ op.err = ErrNil
           /\ \A i \in 1..Len(op.moves) :
                 op.moves[i].dest =
                     Join(op.dest, RelTo(op.dir, op.moves[i].src))

----------------------------------------------------------------------------
(* Claims about Rmdir.                                                     *)

\* the path Rmdir(dir) looks up
RmdirPath(dir) == Trim(IF f.root # <<>> THEN Join(f.root, dir) ELSE dir, {"/"})

\* what looking up the path of the Rmdir o does, the remote taking its
\* requests in the states in which it took those of o
RmdirTarget(o) ==
    getFolderID(f, Before(o), Timed(o.script, o.seen), RmdirPath(o.dir), <<>>)

\* the position of the listing by which Rmdir o looks into the folder
RmdirListing(o) == Len(RmdirTarget(o).calls) + 1

\* the Rmdir o found the folder, and the listing of the folder was answered
\* OK by a remote that held at least one file or subfolder in it
ShownNotEmpty(o) ==
    /\ o.name = "Rmdir"
    /\ RmdirPath(o.dir) # <<>>
    /\ RmdirTarget(o).err = ErrNil
    /\ RmdirListing(o) <= Len(o.calls)
    /\ o.calls[RmdirListing(o)].out = "ok"
    /\ \/ FoldersIn(o.seen[RmdirListing(o)], RmdirTarget(o).val) # <<>>
       \/ FilesIn(o.seen[RmdirListing(o)], RmdirTarget(o).val) # <<>>

\* C16: Rmdir on a folder whose listing shows at least one file or
\* subfolder returns an error and issues no folder-delete request (its
\* last call is that listing, and each of its requests leaves the remote
\* as it found it).
C16_NonEmptyFolderIsKept ==
    ShownNotEmpty(op)
        => /\ op.err # ErrNil
           /\ \A k \in 1..Len(op.calls) : op.calls[k].api # "folder/delete"
           /\ Len(op.calls) = RmdirListing(op)
           /\ op.calls[Len(op.calls)].api = "folder/list"
           /\ op.calls[Len(op.calls)].fld = RmdirTarget(op).val
           /\ op.left = op.seen

\* "docs" (id 5) holds the subfolder "reports" and no file
C16_Witness ==
    /\ ShownNotEmpty(op)
    /\ f.root = <<>>
    /\ op.dir = sDocs
    /\ op.script = NoFault
    /\ RmdirTarget(op).val = 5
    /\ op.err = NoRetryError(ErrNew("directory not empty"))
    /\ Len(op.calls) = 2
    /\ op.calls[2].api = "folder/list"
    /\ op.calls[2].fld = 5

\* no request of another caller came between two requests of the finished
\* operation o: each of its requests found the remote as the one before it
\* had left it
Undisturbed(o) == \A k \in 2..Len(o.seen) : o.seen[k] = o.left[k - 1]

\* C17: on an Fs whose root is the purely numeric R, Rmdir("") targets the
\* folder R: when R is empty it issues the folder-delete request for R and
\* returns no error.
C17_RmdirOfNumericRoot ==
    (/\ op.name = "Rmdir"
     /\ f = NewFs(sNine)
     /\ op.dir = <<>>
     /\ op.script = NoFault
     /\ Undisturbed(op)
     /\ 9 \in FolderIds(Before(op))
     /\ FoldersIn(Before(op), 9) = <<>>
     /\ FilesIn(Before(op), 9) = <<>>)
        => /\ op.err = ErrNil
           /\ \E k \in CallsTo("folder/delete") : op.calls[k].fld = 9

----------------------------------------------------------------------------
(* Claims about errors.                                                    *)

\* no file of the remote, as the operation found it, has the name or the
\* code the path p ends in
NamesNoFile(p) ==
    \A i \in 1..Len(Before(op).files) :
        /\ Base(p) # Before(op).files[i].name
        /\ Base(p) # Before(op).files[i].code
        /\ Base(p) # nameWithCode(Before(op).files[i].code,
                                  Before(op).files[i].name)

\* C18: NewObject for a remote path that names no existing file on the
\* remote returns the distinguished not-found error rather than an object.
C18_AbsentObjectIsNotFound ==
    (op.name = "NewObject" /\ op.script = NoFault /\ NamesNoFile(op.src))
        => ErrorsIs(op.err, ErrorObjectNotFound) /\ ~op.obj

\* the requests that carry a file_code parameter
FileCodeCalls ==
    {k \in 1..Len(op.calls) :
        op.calls[k].api \in {"file/remove", "file/direct_link"}}

\* C19: shape-invalid inputs are rejected before any remote call: Object.Remove
\* and Object.Open send no request that carries a file_code which is not
\* FileCode-shaped, and Rmdir and Mkdir with an empty effective path return
\* an error without a request.
C19_ShapeInvalidRejectedBeforeCall ==
    /\ op.name \in {"Remove", "Open"}
          => \A k \in FileCodeCalls : isFileCode(op.calls[k].code)
    /\ (op.name = "Rmdir" /\ RmdirPath(op.dir) = <<>>)
          => op.err # ErrNil /\ op.calls = <<>>
    /\ (op.name = "Mkdir" /\ op.dir = <<>> /\ f.root = <<>>)
          => op.err # ErrNil /\ op.calls = <<>>

\* C20: no internal retry: in every operation, when a remote call fails
\* with a transport error the operation returns an error to its caller and
\* issues no further remote call.
C20_TransportErrorEndsOperation ==
    \A k \in 1..Len(op.calls) :
        op.calls[k].out = "transport"
            => k = Len(op.calls) /\ op.err # ErrNil

\* Put lists the folder, then the request for the upload server fails
C20_Witness ==
    /\ op.name = "Put"
    /\ op.script = [at |-> 2, how |-> "transport"]
    /\ Len(op.calls) = 2
    /\ op.calls[1].api = "folder/list"
    /\ op.calls[1].out = "ok"
    /\ op.calls[2].api = "upload/server"
    /\ op.calls[2].out = "transport"
    /\ ErrorsIs(op.err, ErrTransport)

----------------------------------------------------------------------------
(* Concurrent uploads of one content.                                      *)

\* the requests caller c sent to api
CallerCallsTo(c, api) ==
    {k \in 1..Len(ops[c].calls) : ops[c].calls[k].api = api}

\* the Update of caller c fetched the listing of the folder, was answered OK
\* and found the key of its content absent: its verdict was "not a
\* duplicate"
DecidedNotDuplicate(c) ==
    /\ ops[c].name = "Update"
    /\ \E k \in CallerCallsTo(c, "folder/list") : ops[c].calls[k].out = "ok"
    /\ \A i \in 1..Len(ops[c].err) : ops[c].err[i].t # "*DuplicateFileError"

\* C21: two updates with the same content into the same folder that run
\* concurrently and both reach the verdict "not a duplicate" both send
\* their multipart upload: when both callers have finished, each of them
\* has sent one upload request.
C21_BothConcurrentUploadsAreSent ==
    (/\ ~Alone
     /\ ops[1].data = ops[2].data
     /\ \A c \in DOMAIN ops : DecidedNotDuplicate(c))
    => \A c \in DOMAIN ops : Cardinality(CallerCallsTo(c, "upload")) = 1

----------------------------------------------------------------------------
(* The duplicate error and the duplicate policy.                           *)

\* the error was returned because uploadFile found a duplicate: a
\* *DuplicateFileError is the error or one of the errors it wraps
DuplicateCause(err) ==
    \E i \in 1..Len(err) : err[i].t = "*DuplicateFileError"

\* C22: every error that Put, MoveTo or Object.Update returns because a
\* duplicate was detected is recognised by IsDuplicateFileError, and
\* IsDuplicateFileError is false for every error with another cause.
C22_DuplicateErrorIsRecognised ==
    op.name \in {"Put", "MoveTo", "Update"}
    => (IsDuplicateFileError(op.err) <=> DuplicateCause(op.err))

\* the content an upload operation carries to the remote: the bytes of the
\* reader for Put and Object.Update; for MoveTo the bytes Object.Open of the
\* source reads, which are those of the file the root names when the root
\* is not empty
UploadContent(rem, o) ==
    IF o.name \in {"Put", "Update"}
    THEN {o.data}
    ELSE {rem.files[i].data :
            i \in {j \in 1..Len(rem.files) :
                     rem.files[j].code =
                         TrimSpace(IF f.root = <<>> THEN o.src ELSE f.root)}}

\* the folder the operation o is to leave its upload in: Atoi(f.folderID)
\* for Put, Atoi(f.root) for MoveTo and for Object.Update, and the root
\* folder where that is not a number
DestinationFolder(o) ==
    CASE o.name = "Put"    -> putFolderID(f)
      [] o.name = "MoveTo" -> moveToFolderID(f)
      [] OTHER             -> IF updateFolderID(f).ok
                              THEN updateFolderID(f).val ELSE 0

\* when the operation o began, its destination folder held a file that the
\* remote lists with the DedupKey of the content of o
KeyInDestination(o) ==
    \E data \in UploadContent(Before(o), o),
       i \in 1..Len(Before(o).files) :
        /\ Before(o).files[i].fld = DestinationFolder(o)
        /\ Before(o).files[i].hash = ListedHash(data, DestinationFolder(o))

PutSaysDuplicate ==
    \E i \in 1..Len(op.log) :
        op.log[i] = "Detected duplicate file, skipping upload."

\* the key of the content of Put is one of the hash values of the k-th call
\* of the trace, a listing
KeyInListing(k) ==
    \E i \in 1..Len(op.calls[k].res) :
        op.calls[k].res[i].hash = ListedHash(op.data, PutFolderID)

\* C24: one run of Put fetches the listing of the destination folder exactly
\* once, and treats the upload as a duplicate exactly when the fingerprint
\* followed by the decimal FolderID is one of the hash values of that one
\* listing.
C24_PutFetchesOneListing ==
    op.name = "Put"
    => /\ Cardinality(CallsTo("folder/list")) = 1
       /\ \A k \in CallsTo("folder/list") :
             /\ op.calls[k].fld = PutFolderID
             /\ PutSaysDuplicate <=> KeyInListing(k)

----------------------------------------------------------------------------
(* Resolution of names and of embedded identifiers.                        *)

\* the segments of the path of the operation that are not empty
Parts == SelectSeq(Split(op.dir, "/"), LAMBDA p : p # <<>>)

\* the name by which the operation looks up the segment p, <<>> when it
\* takes the segment from its embedded identifier: getFolderID looks up
\* every segment as it is
LookupName(p) ==
    IF op.name = "getFolderID" THEN p
    ELSE IF decodeSegment(p).folderID # 0 THEN <<>>
    ELSE decodeSegment(p).part

\* the positions in Parts of the segments that are looked up by name: the
\* k-th of them is looked up in the k-th call of the trace
RECURSIVE LookupsFrom(_)
LookupsFrom(j) ==
    IF j > Len(Parts) THEN <<>>
    ELSE (IF LookupName(Parts[j]) # <<>> THEN <<j>> ELSE <<>>)
         \o LookupsFrom(j + 1)

Lookups == LookupsFrom(1)

\* the folders of the k-th call's listing that carry the name looked up
Named(k) ==
    SelectSeq(op.calls[k].res,
              LAMBDA d : d.name = LookupName(Parts[Lookups[k]]))

\* C25: when several folders of a listing carry the name of the segment,
\* resolveFolderPath and getFolderID continue from the first of them in
\* remote order and do not fail: the first one is the result when the
\* segment is the last one, and the folder of the next listing when the
\* next segment is looked up by name.
C25_FirstOfSeveralIsTaken ==
    op.name \in {"resolveFolderPath", "getFolderID"}
    => \A k \in 1..Len(op.calls) :
          (op.calls[k].out = "ok" /\ Len(Named(k)) > 1)
          => /\ Lookups[k] = Len(Parts)
                => op.err = ErrNil /\ op.val = Named(k)[1].id
             /\ (k < Len(Lookups) /\ Lookups[k + 1] = Lookups[k] + 1)
                => Len(op.calls) > k /\ op.calls[k + 1].fld = Named(k)[1].id

\* getFolderID of "docs/reports" met two folders named docs in the root and
\* found reports in the first of them
C25_Witness ==
    /\ op.name = "getFolderID"
    /\ op.dir = sDocs \o <<"/">> \o sReports
    /\ Len(op.calls) = 2
    /\ Len(Named(1)) = 2
    /\ op.calls[2].fld = 5
    /\ op.err = ErrNil
    /\ op.val = 9

\* the segment has the shape of the "(id) name" template with a number
\* between the parentheses
EmbedsID(p) ==
    /\ HasPrefix(p, <<"(">>)
    /\ Index(p, ")") # -1
    /\ Atoi(Slice(p, 1, Index(p, ")"))).ok

\* the path made of the segments of Parts from the j-th on
RECURSIVE PathFrom(_)
PathFrom(j) ==
    IF j > Len(Parts) THEN <<>>
    ELSE IF j = Len(Parts) THEN Parts[j]
    ELSE Parts[j] \o <<"/">> \o PathFrom(j + 1)

\* the positions in Parts of the segments with an embedded identifier
Embedded == {j \in 1..Len(Parts) : EmbedsID(Parts[j])}

LastEmbedded == CHOOSE j \in Embedded : \A i \in Embedded : i <= j

\* C26: an embedded identifier is adopted without any check, so the result
\* of resolveFolderPath depends only on the segments from the last segment
\* with an embedded identifier onward: with every call answered OK and no
\* other caller between the calls the path resolves as its part from that
\* segment on does; "(42) docs/(17) reports" yields 17 with no call.
C26_OnlyTheLastEmbeddedSegmentCounts ==
    (/\ op.name = "resolveFolderPath"
     /\ op.script = NoFault
     /\ Undisturbed(op)
     /\ Embedded # {})
    => /\ LET r == resolveFolderPath(Before(op), NoFault,
                                     PathFrom(LastEmbedded), <<>>)
          IN  op.val = r.val /\ op.err = r.err
       /\ op.dir = sE42Docs \o <<"/">> \o sE17Rep
          => op.val = 17 /\ op.err = ErrNil /\ op.calls = <<>>

\* the segments of the root of the Fs that are not empty
RootParts == SelectSeq(Split(f.root, "/"), LAMBDA p : p # <<>>)

\* the request that shows which folder a delete operation resolved its path
\* to: the emptiness listing of Rmdir, the delete request of Fs.Remove
TargetApi == IF op.kind = "Rmdir" THEN "folder/list" ELSE "folder/delete"

\* C27: for every directory entry that List returns, Rmdir and Fs.Remove
\* given the path of the entry resolve it to the FolderID the listing
\* reported, and the segment with the embedded identifier triggers no
\* lookup by name: with every call answered OK the directory is found, the
\* trace ends with the requests for the listed folder, and it holds no
\* listing beyond those for the segments of the root and the emptiness
\* listing of Rmdir.
C27_ListedDirectoryIsDeletable ==
    (op.name = "DeleteListed" /\ op.script = NoFault)
    => /\ ~ErrorsIs(op.err, ErrorDirNotFound)
       /\ \E k \in 1..Len(op.calls) :
             /\ op.calls[k].api = TargetApi
             /\ \A j \in k..Len(op.calls) : op.calls[j].fld = op.val
       /\ Cardinality(CallsTo("folder/list"))
             <= Len(RootParts) + (IF op.kind = "Rmdir" THEN 1 ELSE 0)

----------------------------------------------------------------------------
(* The folder identifiers and the requests of Rmdir.                       *)

\* C28: every FolderID that resolveFolderPath or getFolderID returns, and
\* every FolderID sent to the remote in a listing, delete or set-folder
\* request, is a non-negative integer, for every path and every root.
C28_FolderIDsAreNonNegative ==
    /\ op.name \in {"resolveFolderPath", "getFolderID"} => op.val >= 0
    /\ \A k \in 1..Len(op.calls) :
          op.calls[k].api \in {"folder/list", "folder/delete",
                               "file/set_folder"}
          => op.calls[k].fld >= 0

\* C29: Rmdir issues the folder-delete request only after a listing of that
\* folder that was answered OK and returned no files and no folders; a
\* listing answered with a non-OK status makes Rmdir return an error
\* without issuing the delete.
C29_DeleteOnlyAfterEmptyOkListing ==
    op.name = "Rmdir"
    => /\ \A k \in CallsTo("folder/delete") :
             /\ k > 1
             /\ op.calls[k - 1].api = "folder/list"
             /\ op.calls[k - 1].fld = op.calls[k].fld
             /\ op.calls[k - 1].out = "ok"
             /\ op.calls[k - 1].res = <<>>
             /\ FilesIn(op.seen[k - 1], op.calls[k].fld) = <<>>
       /\ (\E k \in CallsTo("folder/list") : op.calls[k].out = "status")
          => op.err # ErrNil /\ CallsTo("folder/delete") = {}

----------------------------------------------------------------------------
(* The answer of the upload request.                                       *)

\* C30: for every decodable answer of the upload request, an empty result
\* list and a first entry whose status is not OK included, uploadFile
\* returns either a FileCode, and that only when the first entry has the
\* status OK, or an error; it never terminates abnormally.
C30_UploadAnswerNeverPanics ==
    op.name = "uploadFile"
    => /\ op.kind = "returned"
       /\ (op.code # <<>>) # (op.err # ErrNil)
       /\ op.code # <<>>
          => /\ OkCallsTo("upload") # {}
             /\ op.code \in FileCodes(After(op))

----------------------------------------------------------------------------
(* The windows of the fingerprint.                                         *)

\* the first partSize bytes and the last partSize bytes of a content
HeadWindow(data) == SubSeq(data, 1, partSize)

TailWindow(data) == SubSeq(data, Len(data) - partSize + 1, Len(data))

\* the contents longer than one window that share both windows with the
\* content of the file of the operation
SameWindows ==
    {key \in ContentKeys :
        /\ Len(Content(key)) > partSize
        /\ Len(Content(op.data)) > partSize
        /\ HeadWindow(Content(key)) = HeadWindow(Content(op.data))
        /\ TailWindow(Content(key)) = TailWindow(Content(op.data))}

\* C31: two files longer than 1024 bytes whose first 1024 bytes are equal
\* and whose last 1024 bytes are equal have equal ComputeMD5 results,
\* whatever their interior bytes and their total lengths.
C31_FingerprintOfTheWindowsOnly ==
    op.name = "ComputeMD5"
    => \A key \in SameWindows :
          LET r == ComputeMD5([n \in {op.src} |-> key], op.src)
          IN  r.hash = op.hash /\ r.err = op.err

\* ComputeMD5 of the 3000-byte file gave the fingerprint of the 2049-byte
\* file with another interior
C31_Witness ==
    /\ op.name = "ComputeMD5"
    /\ op.data = "b3000"
    /\ "b2049x" \in SameWindows
    /\ op.err = ErrNil
    /\ op.hash # <<>>
    /\ op.hash = ComputeMD5([n \in {op.src} |-> "b2049x"], op.src).hash

----------------------------------------------------------------------------
(* The entries of List as arguments of the other operations.               *)

\* C32: Object.Open on a file entry returned by List, on an Fs whose root
\* is not FileCode-shaped, requests the direct link for the file code that
\* the listing reported for that entry, for the empty root as well as for a
\* non-empty one.
C32_OpenOfListedFile ==
    (op.name = "OpenListed" /\ ~isFileCode(f.root))
    => /\ Len(op.calls) > 0
       /\ op.calls[1].api = "file/direct_link"
       /\ op.calls[1].code = op.code

----------------------------------------------------------------------------
(* The destination folder of the uploads.                                  *)

\* C33: on one Fs value Put, MoveTo and Object.Update all relocate an
\* uploaded file into the same destination FolderID, and that FolderID is
\* the one whose listing and decimal value uploadFile uses to build and
\* test the DedupKey.
C33_OneDestinationFolder ==
    op.name \in {"Put", "MoveTo", "Update"}
    => /\ dedupFolderID(f).ok
       /\ updateFolderID(f).ok
       /\ putFolderID(f) = dedupFolderID(f).val
       /\ moveToFolderID(f) = dedupFolderID(f).val
       /\ updateFolderID(f).val = dedupFolderID(f).val

\* the Fs was created with a numeric root (remote:FolderID)
NumericRoot == f \in {NewFs(r) : r \in {x \in Roots : isNumeric(x)}}

\* C34: on an Fs created with a numeric root R, List with the empty
\* directory argument lists the contents of folder R, the folder into which
\* Put relocates the files it uploads.
C34_ListOfNumericRoot ==
    (op.name = "List" /\ op.dir = <<>> /\ NumericRoot)
    => /\ Len(op.calls) = 1
       /\ op.calls[1].api = "folder/list"
       /\ op.calls[1].fld = putFolderID(f)

\* C35: for every directory entry E returned by List(dir), List given the
\* path of E returns the contents of the folder whose FolderID the listing
\* reported for E, and resolving the last segment of E costs no listing
\* call: List of E makes as many calls as List of dir makes, the last of
\* them the listing of the reported folder, whose contents as that call
\* found them are the entries, and with every call answered OK it does not
\* fail.
C35_ListedDirectoryIsListable ==
    op.name = "ListListed"
    => /\ op.script = NoFault => op.err = ErrNil
       /\ op.err = ErrNil
          => /\ Len(op.calls)
                  = Len(List(f, St0(Before(op)), NoFault, op.src).st.calls)
             /\ op.calls[Len(op.calls)].api = "folder/list"
             /\ op.calls[Len(op.calls)].fld = op.val
             /\ op.entries = entriesOf(op.dir, FoldersIn(Shown, op.val),
                                       FilesIn(Shown, op.val))

\* List of the entry "(7) docs/(3) Pics" of List("(7) docs") listed the
\* folder 3 with one call
C35_Witness ==
    /\ op.name = "ListListed"
    /\ op.src = sE7Docs
    /\ op.dir = sE7Docs \o <<"/">> \o nameWithID(3, sPics)
    /\ op.val = 3
    /\ op.err = ErrNil
    /\ Len(op.calls) = 1
    /\ op.calls[1].fld = 3

----------------------------------------------------------------------------
(* The temporary files.                                                    *)

\* C36: every temporary file that createTempFileFromReader creates during
\* Put or uploadFile has been removed from the local filesystem by the time
\* the operation returns, on the success path and on every failure path.
C36_TemporaryFilesAreRemoved ==
    op.name \in {"Put", "MoveTo", "Update"} => op.disk = <<>>

============================================================================
